---- MODULE Spec2Model ----
(***************************************************************************)
(* Verification model of the Basilisk C language server (qcc-lsp):         *)
(*   - ClangdClient (server/src/clangdClient.ts): the JSON-RPC client that *)
(*     drives the clangd child process;                                    *)
(*   - the analyzer session management of the server (ensureClangd,        *)
(*     stopClangd);                                                        *)
(*   - the per-document diagnostics reconciler (validateTextDocument, the  *)
(*     clangd diagnostics callback, publishDiagnostics).                   *)
(*                                                                         *)
(* Node.js runs one macrotask (an I/O event, an editor message) at a time  *)
(* and drains every promise continuation (microtask) it made runnable      *)
(* before the next macrotask.  The microtask queue is first-in first-out:  *)
(* a settled promise queues its reactions in the order of their            *)
(* registration, and an async function that returns a promise settles two  *)
(* jobs after that promise.  Macrotask actions are disabled while a        *)
(* microtask is queued.                                                    *)
(***************************************************************************)
EXTENDS Integers, Sequences, FiniteSets, TLC

\* ------------------------------------------------------------------ bounds
MaxClients == 3     \* ClangdClient objects the server creates
MaxCalls == 2       \* request()/stop() calls in SpecClient
MaxQueueCalls == 1  \* request()/stop() calls in SpecNotify
MaxNotify == 3      \* notify() calls on one client in SpecNotify
MaxEmit == 2        \* frames the child process writes
MaxChunk == 2       \* frames in one stdout chunk
MaxEnsure == 2      \* ensureClangd calls in SpecSession
MaxInclude == 2     \* configured include paths in SpecQcc
MaxLines == 2       \* lines of the document in SpecFilter
MaxItems == 2       \* completion items of one side in SpecCompletion
MaxPaths == 2       \* include paths of one layer in SpecSettings
MaxReports == 2     \* document events and analyzer reports in SpecFilter
MaxEvents == 4      \* open, change, save and analyzer-report events in SpecDoc
MaxFrames == 2      \* frames the child writes in SpecFrame
MaxList == 2        \* diagnostics in one cache in SpecPublish
MaxSearch == 2      \* directories on the search path in SpecResolve
MaxRuns == 2        \* runDiagnostics calls in SpecTemp
MaxClock == 1       \* the last reading of the clock in SpecTemp
MaxForward == 2     \* open, change and save events in SpecForward
MaxDocCalls == 3    \* ensureBasiliskDocs calls in SpecDocs

Max2(a, b) == IF a >= b THEN a ELSE b
MaxTasks == Max2(MaxCalls, Max2(MaxQueueCalls, MaxEnsure + 1))
MaxId == MaxTasks + 1

Clients == 1..MaxClients
TaskIds == 1..MaxTasks

VARIABLES
  process,              \* [Clients -> BOOLEAN]: this.process is not null
  os,                   \* the child process itself: none, running, killed, exited, failed
  buffered,             \* frames the child wrote to stdout, not yet handed to handleData
  nextId,               \* this.nextId
  pending,              \* this.pending: request id -> waiter (0: initialize(), else a task)
  ready,                \* this.ready
  readyPromise,         \* this.readyPromise: null, pending, resolved, rejected
  initResume,           \* queued continuation of initialize(): none, ok, err
  queuedNotifications,  \* this.queuedNotifications
  stdin,                \* what send() wrote to the child's stdin, in order
  notifyCalls,          \* number of notify() calls made on the client so far
  initAnswered,         \* the response to `initialize` was handed to handleMessage
  emitted,              \* number of frames the child has written
  answered,             \* ids of the requests the child has answered
  cbCount,              \* number of invocations of the diagnostics callback
  settleCount,          \* request id -> number of resolve/reject calls on its waiter
  buffer,               \* this.buffer: the bytes received and not yet consumed
  dispatched,           \* the messages handleData has handed to handleMessage, in order
  parseErrors,          \* number of bodies handleData could not parse
  frames,               \* the bodies of the frames the child writes, in order
  wire,                 \* the bytes of these frames not yet delivered by a 'data' event
  split,                \* some 'data' event has ended inside a frame
  uncaught,             \* number of exceptions thrown out of an event listener
  runDiag,              \* the runDiagnostics call: its position, inputs, argv and result
  check,                \* the run of the standalone checker: its inputs, its race and its exit code
  temp,                 \* the clock, the runDiagnostics calls in progress and the files in os.tmpdir()
  docs,                 \* the documentation index and the ensureBasiliskDocs calls
  tempFile,             \* the file at the path runDiagnostics chose: absent, exists
  tasks,                \* [TaskIds -> task record]: async calls in progress
  microtasks,           \* the promise job queue, first in first out
  readyWaiters,         \* tasks awaiting this.readyPromise, in registration order
  clangdClient,         \* server: the current ClangdClient (0: null)
  clangdConfigKey,      \* server: fingerprint of its configuration (0: null)
  created,              \* number of ClangdClient objects constructed
  clangdDiagnostics,    \* server: clangdDiagnostics.get(uri) ("none": no entry)
  clangdDiagnosticsGeneration,  \* server: clangdDiagnosticsGeneration.get(uri) (0: no entry)
  onDiagnosticsCallback,   \* [Clients -> null, stub, server]: this.onDiagnosticsCallback
  hasConfigurationCapability,
  changeEvents,            \* number of settings-change events so far
  globalSettings,          \* the change event whose settings globalSettings holds (0: the first)
  call,                    \* a call of a merge function: its arguments and its result
  docText,                 \* the lines of the document: TRUE for a line with a Basilisk construct
  settings,                \* the settings a lookup for the document yields
  documentSettings,        \* documentSettings.get(uri): index in lookups (0: no entry)
  lookups,                 \* the workspace/configuration requests made, each with its awaiters
  docOpen,                 \* documents.get(uri) is defined
  docObj,                  \* the TextDocument object of the open document: 1, 2, ...
  objVersion,              \* [object -> its version field]
  events,                  \* number of document events so far
  localDiagnostics,        \* localDiagnostics.get(uri) ("none": no entry)
  localDiagnosticsVersion, \* localDiagnosticsVersion.get(uri) (0: no entry)
  published,               \* the last list sent to the editor for uri ("never": none yet)
  sendFlip,                \* flips at every connection.sendDiagnostics call
  superseded,              \* validations that had recorded an older version when a newer one stored
  validations,             \* the validateTextDocument calls made, in order
  diagCallbacks            \* the invocations of the server's diagnostics callback

clientVars == <<process, os, buffered, nextId, pending, ready, readyPromise, initResume,
                queuedNotifications, stdin, notifyCalls, initAnswered, emitted, answered,
                cbCount, settleCount, buffer, dispatched, parseErrors, frames, wire, split,
                uncaught, runDiag,
                check,
                temp,
                docs, tempFile>>

sessionVars == <<clangdClient, clangdConfigKey, created, clangdDiagnostics,
                 clangdDiagnosticsGeneration>>

docVars == <<onDiagnosticsCallback, hasConfigurationCapability, changeEvents, globalSettings, docText, call,
             settings, documentSettings,
             lookups, docOpen, docObj, objVersion, events, localDiagnostics,
             localDiagnosticsVersion, published, sendFlip, superseded, validations,
             diagCallbacks>>

vars == <<clientVars, tasks, microtasks, readyWaiters, sessionVars, docVars>>

\* ------------------------------------------------------- values and records
\* defaultSettings, as far as the reconciler reads it
maxNumberOfProblems == 100

DefaultSettings ==
  [diagnosticsOnType |-> FALSE, diagnosticsOnSave |-> TRUE, enableDiagnostics |-> TRUE,
   diagnosticsMode |-> "filtered", maxNumberOfProblems |-> maxNumberOfProblems]

\* A text is a sequence of characters, each written as a string.
Digits == <<"0", "1", "2", "3", "4", "5", "6", "7", "8", "9">>

\* a number turned into text, as a template literal or Array.join does
RECURSIVE Decimal(_)
Decimal(n) ==
  IF n < 10 THEN <<Digits[n + 1]>> ELSE Append(Decimal(n \div 10), Digits[(n % 10) + 1])

\* a validateTextDocument call: change is the settings-change event whose
\* handler made it (0: a document event), lookup the cached settings promise
\* it awaits (0: globalSettings), asOf the change event its settings reflect
NoValidation ==
  [pc |-> "idle", obj |-> 0, trigger |-> "none", version |-> 0, diags |-> <<>>,
   change |-> 0, lookup |-> 0, asOf |-> 0]

\* A diagnostic with the fields dedupeDiagnostics reads: range (start line,
\* start character, end line, end character), severity (0: undefined),
\* message and source, both texts.  obj, version and noise say which text
\* it was computed from and whether filterClangdDiagnostics takes it for
\* noise.
TextDiagnostic(range, severity, message, source) ==
  [range |-> range, severity |-> severity, message |-> message, source |-> source,
   obj |-> 0, version |-> 0, noise |-> FALSE]

\* The diagnostic a tool (quick, qcc, clangd) reports on version `version` of
\* TextDocument object obj: its message is particular to that text.
Diagnostic(source, obj, version, noise) ==
  [TextDiagnostic(<<0, 0, 0, 1>>, 1,
                  <<"text">> \o Decimal(obj) \o <<"v">> \o Decimal(version)
                    \o (IF noise THEN <<"noise">> ELSE <<>>),
                  <<source>>)
     EXCEPT !.obj = obj, !.version = version, !.noise = noise]

\* An Error: the operation that failed (spawn, timeout, write; none: no
\* error), its system code, and its message as a sequence of words.
SystemError(kind, code, message) == [kind |-> kind, code |-> code, message |-> message]

NoError == SystemError("none", "", <<>>)

\* a runDiagnostics call: settled says how runCommand ended (none, resolved,
\* rejected), error is what the try block threw, logged counts logger.warn;
\* child is the compiler process (none, running, killed, failed, closed),
\* timer the timer of runCommand (unset, armed, cleared, fired), settleCalls
\* counts the calls of resolve and reject, returns the returns of
\* runDiagnostics
NoRun ==
  [pc |-> "idle", includeDirs |-> <<>>, args |-> <<>>, settled |-> "none", output |-> <<>>,
   error |-> NoError, diagnostics |-> <<>>, logged |-> 0, unlinkFailed |-> FALSE,
   child |-> "none", timer |-> "unset", settleCalls |-> 0, returns |-> 0]

\* a run of the standalone checker: what it was given (does the file exist, a
\* project-config path was given, that file could not be loaded, the result
\* of checkQccAvailable, the settings it reads), the list `diagnostics` of
\* run(), diagnosticsPromise and what it resolved with, the timer, the race
\* of the two with its winner and value, how runClangdDiagnostics ended and
\* with what, what was written to stdout, process.exitCode (0: not set)
NoCheck ==
  [pc |-> "idle", fileExists |-> FALSE, configPath |-> FALSE, configError |-> FALSE,
   qccAvailable |-> FALSE, shouldRunClangd |-> FALSE,
   diagnosticsMode |-> "filtered", diagnostics |-> <<>>,
   promise |-> "pending", resolved |-> <<>>, timer |-> "unset", race |-> "none", winner |-> "none", value |-> <<>>,
   query |-> "none", result |-> <<>>, printed |-> FALSE, reported |-> <<>>, exitCode |-> 0]

\* Date.now() is 0, no runDiagnostics call has been made, os.tmpdir() is
\* empty
NoTemp == [clock |-> 0, runs |-> <<>>, files |-> << >>]

\* new Map(): the index with no entry, built from no root
EmptyIndex == [from |-> <<>>, size |-> 0]

\* the module state of the documentation index: docRootKey (<<>> is null; a
\* key is JSON.stringify of a non-empty list, written as the list), docIndex
\* (the roots it was built from and its size), loading (0 is null, else the
\* number of the build whose promise it holds), the builds and the calls
\* (waited: the call has awaited the build of another call)
NoDocs ==
  [docRootKey |-> <<>>, docIndex |-> EmptyIndex, loading |-> 0, builds |-> <<>>, calls |-> <<>>]

NoTask ==
  [kind |-> "none", pc |-> "idle", c |-> 0, id |-> 0, res |-> "none",
   enabled |-> FALSE, key |-> 0, same |-> FALSE, phase |-> "none",
   change |-> 0, done |-> FALSE, answer |-> "none"]

RequestMsg(id, method) == [kind |-> "request", method |-> method, id |-> id, seq |-> 0]
NotificationMsg(method, seq) == [kind |-> "notification", method |-> method, id |-> 0, seq |-> seq]
ResponseMsg(id, err) == [kind |-> "response", method |-> IF err THEN "error" ELSE "result", id |-> id, seq |-> 0]
\* a reverse request of the child (a message with a method and an id); items
\* is the length of params.items
ServerRequestMsg(method, id, items) == [kind |-> "serverRequest", method |-> method, id |-> id, seq |-> items]
\* the client's response to a reverse request: result names the shape of the
\* result ("[{}]": an array of items empty objects)
ReplyMsg(id, result, items) == [kind |-> "reply", method |-> result, id |-> id, seq |-> items]

\* The whole state as one record, so that the code's synchronous call sequences
\* compose as operators on it.
Cur ==
  [process |-> process, os |-> os, buffered |-> buffered, nextId |-> nextId,
   pending |-> pending, ready |-> ready, readyPromise |-> readyPromise,
   initResume |-> initResume, queuedNotifications |-> queuedNotifications,
   stdin |-> stdin, notifyCalls |-> notifyCalls, initAnswered |-> initAnswered,
   emitted |-> emitted, answered |-> answered, cbCount |-> cbCount, settleCount |-> settleCount,
   tasks |-> tasks, microtasks |-> microtasks, readyWaiters |-> readyWaiters,
   clangdClient |-> clangdClient, clangdConfigKey |-> clangdConfigKey,
   created |-> created, clangdDiagnostics |-> clangdDiagnostics,
   clangdDiagnosticsGeneration |-> clangdDiagnosticsGeneration,
   onDiagnosticsCallback |-> onDiagnosticsCallback,
   hasConfigurationCapability |-> hasConfigurationCapability, settings |-> settings,
   changeEvents |-> changeEvents, globalSettings |-> globalSettings, docText |-> docText, call |-> call,
   documentSettings |-> documentSettings, lookups |-> lookups, docOpen |-> docOpen,
   docObj |-> docObj, objVersion |-> objVersion, events |-> events,
   localDiagnostics |-> localDiagnostics,
   localDiagnosticsVersion |-> localDiagnosticsVersion, published |-> published,
   sendFlip |-> sendFlip, superseded |-> superseded, validations |-> validations,
   diagCallbacks |-> diagCallbacks, buffer |-> buffer, dispatched |-> dispatched,
   parseErrors |-> parseErrors, frames |-> frames, wire |-> wire, split |-> split,
   uncaught |-> uncaught, runDiag |-> runDiag,
   check |-> check,
   temp |-> temp,
   docs |-> docs, tempFile |-> tempFile]

SetClient(w) ==
  /\ process' = w.process
  /\ os' = w.os
  /\ buffered' = w.buffered
  /\ nextId' = w.nextId
  /\ pending' = w.pending
  /\ ready' = w.ready
  /\ readyPromise' = w.readyPromise
  /\ initResume' = w.initResume
  /\ queuedNotifications' = w.queuedNotifications
  /\ stdin' = w.stdin
  /\ notifyCalls' = w.notifyCalls
  /\ initAnswered' = w.initAnswered
  /\ emitted' = w.emitted
  /\ answered' = w.answered
  /\ cbCount' = w.cbCount
  /\ settleCount' = w.settleCount
  /\ tasks' = w.tasks
  /\ microtasks' = w.microtasks
  /\ readyWaiters' = w.readyWaiters
  /\ clangdClient' = w.clangdClient
  /\ clangdConfigKey' = w.clangdConfigKey
  /\ created' = w.created
  /\ clangdDiagnostics' = w.clangdDiagnostics
  /\ clangdDiagnosticsGeneration' = w.clangdDiagnosticsGeneration
  /\ onDiagnosticsCallback' = w.onDiagnosticsCallback
  /\ hasConfigurationCapability' = w.hasConfigurationCapability
  /\ changeEvents' = w.changeEvents
  /\ globalSettings' = w.globalSettings
  /\ docText' = w.docText
  /\ call' = w.call
  /\ settings' = w.settings
  /\ documentSettings' = w.documentSettings
  /\ lookups' = w.lookups
  /\ docOpen' = w.docOpen
  /\ docObj' = w.docObj
  /\ objVersion' = w.objVersion
  /\ events' = w.events
  /\ localDiagnostics' = w.localDiagnostics
  /\ localDiagnosticsVersion' = w.localDiagnosticsVersion
  /\ published' = w.published
  /\ sendFlip' = w.sendFlip
  /\ superseded' = w.superseded
  /\ validations' = w.validations
  /\ diagCallbacks' = w.diagCallbacks
  /\ buffer' = w.buffer
  /\ dispatched' = w.dispatched
  /\ parseErrors' = w.parseErrors
  /\ frames' = w.frames
  /\ wire' = w.wire
  /\ split' = w.split
  /\ uncaught' = w.uncaught
  /\ runDiag' = w.runDiag
  /\ check' = w.check
  /\ temp' = w.temp
  /\ docs' = w.docs
  /\ tempFile' = w.tempFile

\* ------------------------------------------------------- the promise jobs

\* A job resumes a continuation after `hops` intermediate promise reactions
\* that only pass a settlement on.  The continuation is that of task n
\* ("task"), of the initialize() call of client n ("init"), of validation n
\* ("validate") or of the diagnostics callback invocation n ("diag").
Job(kind, n, hops) == [kind |-> kind, n |-> n, hops |-> hops]

Enqueue(w, kind, n, hops) == [w EXCEPT !.microtasks = Append(@, Job(kind, n, hops))]

\* ------------------------------------------- server: the reconciler

\* `await getDocumentSettings(uri)` by a continuation (kind, n).  Without the
\* configuration capability, or with a cached lookup that has been answered,
\* the promise is resolved already; else the continuation waits for the
\* answer to the cached lookup, or to a new one that is cached now.
AwaitDocumentSettings(w, kind, n) ==
  IF ~w.hasConfigurationCapability
    THEN Enqueue(w, kind, n, 0)
  ELSE IF w.documentSettings # 0
    THEN IF w.lookups[w.documentSettings].state = "resolved"
           THEN Enqueue(w, kind, n, 0)
           ELSE [w EXCEPT !.lookups[w.documentSettings].waiters =
                            Append(@, [kind |-> kind, n |-> n])]
  ELSE [w EXCEPT !.lookups = Append(@, [state |-> "pending", asOf |-> 0,
                                        waiters |-> <<[kind |-> kind, n |-> n]>>]),
                 !.documentSettings = Len(w.lookups) + 1]

\* parts.join(':')
RECURSIVE Join(_)
Join(parts) ==
  IF parts = <<>> THEN <<>>
  ELSE IF Len(parts) = 1 THEN parts[1]
  ELSE parts[1] \o <<":">> \o Join(Tail(parts))

\* the key dedupeDiagnostics builds for a diagnostic
DiagnosticKey(d) ==
  Join(<<Decimal(d.range[1]), Decimal(d.range[2]), Decimal(d.range[3]), Decimal(d.range[4]),
         IF d.severity = 0 THEN <<>> ELSE Decimal(d.severity),
         d.message, d.source>>)

\* dedupeDiagnostics(): a diagnostic is kept unless the key of one before it
\* equals its key
RECURSIVE DedupeDiagnostics(_)
DedupeDiagnostics(diagnostics) ==
  IF diagnostics = <<>> THEN <<>>
  ELSE LET before == SubSeq(diagnostics, 1, Len(diagnostics) - 1)
           last == diagnostics[Len(diagnostics)]
       IN IF \E i \in DOMAIN before : DiagnosticKey(before[i]) = DiagnosticKey(last)
            THEN DedupeDiagnostics(before)
            ELSE Append(DedupeDiagnostics(before), last)

\* list.slice(0, end): a negative end counts from the end of the list
SliceTo(list, end) ==
  SubSeq(list, 1, IF end < 0 THEN Max2(Len(list) + end, 0)
                  ELSE IF end > Len(list) THEN Len(list)
                  ELSE end)

\* publishDiagnostics(uri, settings)
PublishDiagnostics(w) ==
  LET clangd == IF w.clangdDiagnostics = "none" THEN <<>> ELSE w.clangdDiagnostics
      local == IF w.localDiagnostics = "none" THEN <<>> ELSE w.localDiagnostics
      merged == DedupeDiagnostics(clangd \o local)
      limited == SliceTo(merged, w.settings.maxNumberOfProblems)
  IN [w EXCEPT !.published = limited, !.sendFlip = ~@]

\* validateTextDocument(document, trigger) up to `await getDocumentSettings`
ValidateBegin(w, obj, trigger) ==
  LET i == Len(w.validations) + 1
      w1 == AwaitDocumentSettings(
              [w EXCEPT !.validations = Append(@, [NoValidation EXCEPT !.pc = "awaitSettings",
                                                                       !.obj = obj,
                                                                       !.trigger = trigger])],
              "validate", i)
  IN [w1 EXCEPT !.validations[i].lookup = w1.documentSettings]

\* quickValidate(document.getText()): the text has one problem it reports
QuickValidate(obj, version) == <<Diagnostic("quick", obj, version, FALSE)>>

\* runDiagnostics(): the compiler reports one problem of the text it was
\* given, or fails and reports nothing
RunDiagnostics(obj, version, ok) ==
  IF ok THEN <<Diagnostic("qcc", obj, version, FALSE)>> ELSE <<>>

\* a validateTextDocument whose gates stop every event
ValidateAfterSettingsGatesAll(w, i) == [w EXCEPT !.validations[i].pc = "gated"]

\* validateTextDocument() after the settings: the two gates, the version
\* record, then collectLocalDiagnostics up to the compiler run.
ValidateAfterSettings(w, i) ==
  LET v == w.validations[i]
      trigger == v.trigger
  IN IF \/ trigger = "change" /\ ~w.settings.diagnosticsOnType
        \/ trigger = "save" /\ ~w.settings.diagnosticsOnSave
       THEN [w EXCEPT !.validations[i].pc = "gated"]
       ELSE LET version == w.objVersion[v.obj]
                runQuick == \/ trigger = "open"
                            \/ trigger = "change" /\ w.settings.diagnosticsOnType
                            \/ trigger = "save" /\ w.settings.diagnosticsOnSave
                runQcc == /\ w.settings.enableDiagnostics
                          /\ \/ trigger = "change" /\ w.settings.diagnosticsOnType
                             \/ trigger = "save" /\ w.settings.diagnosticsOnSave
                w1 == [w EXCEPT !.localDiagnosticsVersion = version,
                                !.validations[i].version = version,
                                !.validations[i].asOf =
                                   IF v.lookup = 0 THEN w.globalSettings
                                   ELSE w.lookups[v.lookup].asOf,
                                !.validations[i].diags =
                                   IF runQuick THEN QuickValidate(v.obj, version) ELSE <<>>]
            IN IF runQcc
                 THEN [w1 EXCEPT !.validations[i].pc = "awaitQcc"]
                 ELSE Enqueue([w1 EXCEPT !.validations[i].pc = "collected"], "validate", i, 0)

\* the compiler run of validation i ends: collectLocalDiagnostics returns
CollectAfterQcc(w, i, ok) ==
  LET v == w.validations[i]
  IN Enqueue([w EXCEPT !.validations[i].pc = "collected",
                       !.validations[i].diags = @ \o RunDiagnostics(v.obj, v.version, ok)],
             "validate", i, 1)

\* the validations in flight that have recorded a version older than version
Recorded(w, version) ==
  {j \in DOMAIN w.validations : /\ w.validations[j].pc \in {"awaitQcc", "collected"}
                                /\ w.validations[j].version < version}

\* validateTextDocument() after `await collectLocalDiagnostics`
ValidateAfterCollect(w, i) ==
  LET v == w.validations[i]
  IN IF w.localDiagnosticsVersion # v.version
       THEN [w EXCEPT !.validations[i].pc = "dropped"]
       ELSE PublishDiagnostics([w EXCEPT !.localDiagnostics = v.diags,
                                         !.superseded = @ \cup Recorded(w, v.version),
                                         !.validations[i].pc = "stored"])

\* A line of text is kept as what the two regular expressions of
\* basiliskDetect.ts find in it: TRUE for a line with a Basilisk token or
\* include.  A text is the sequence of its lines.
LineLikelyBasilisk(line) == line

\* isLikelyBasiliskText(text).  An include directive that is spread over two
\* lines makes this true of a text none of whose lines has a construct; the
\* filter then keeps every diagnostic, as it does for a text without any.
IsLikelyBasiliskText(lines) == \E l \in DOMAIN lines : LineLikelyBasilisk(lines[l])

\* NOISE_PATTERNS.some(pattern => pattern.test(diagnostic.message))
MatchesNoise(diagnostic) == diagnostic.noise

\* lineLikelyBasilisk(lines[diagnostic.range.start.line] || '')
OnBasiliskLine(diagnostic, lines) ==
  LET l == diagnostic.range[1] + 1
  IN l \in DOMAIN lines /\ LineLikelyBasilisk(lines[l])

\* a filter that looks at the message only
FilterByMessage(diagnostics, lines) == SelectSeq(diagnostics, LAMBDA d : ~MatchesNoise(d))

\* filterClangdDiagnostics(diagnostics, text)
FilterClangdDiagnostics(diagnostics, lines) ==
  IF ~IsLikelyBasiliskText(lines)
    THEN diagnostics
    ELSE SelectSeq(diagnostics, LAMBDA d : ~OnBasiliskLine(d, lines) \/ ~MatchesNoise(d))

\* the callback given to clangdClient.onDiagnostics, up to its `await`
OnDiagnostics(w, diagnostics) ==
  LET generation == w.clangdDiagnosticsGeneration + 1
      k == Len(w.diagCallbacks) + 1
  IN AwaitDocumentSettings(
       [w EXCEPT !.clangdDiagnosticsGeneration = generation,
                 !.diagCallbacks = Append(@, [pc |-> "awaitSettings", generation |-> generation,
                                              diags |-> diagnostics])],
       "diag", k)

\* the callback after `await getDocumentSettings(uri)`
OnDiagnosticsAfterSettings(w, k) ==
  LET cb == w.diagCallbacks[k]
  IN IF w.clangdDiagnosticsGeneration # cb.generation
       THEN [w EXCEPT !.diagCallbacks[k].pc = "dropped"]
       ELSE LET nextDiagnostics ==
                  IF w.settings.diagnosticsMode = "none" THEN <<>>
                  ELSE IF w.settings.diagnosticsMode = "filtered"
                    THEN IF w.docOpen THEN FilterClangdDiagnostics(cb.diags, w.docText)
                                      ELSE cb.diags
                  ELSE cb.diags
                w1 == [w EXCEPT !.clangdDiagnostics = nextDiagnostics,
                                !.diagCallbacks[k].pc = "done"]
            IN IF w.settings.diagnosticsOnType THEN PublishDiagnostics(w1) ELSE w1

\* ------------------------------------------------------------ ClangdClient

\* send(): nothing is written without a process handle.
Send(w, c, m) ==
  IF ~w.process[c] THEN w ELSE [w EXCEPT !.stdin[c] = Append(@, m)]

\* mutant: notify() without the readiness gate
NotifyWithoutGate(w, c, method) ==
  LET n == w.notifyCalls[c] + 1
  IN Send([w EXCEPT !.notifyCalls[c] = n], c, NotificationMsg(method, n))

\* notify(): queue until ready, else send.  seq numbers the notify() calls.
Notify(w, c, method) ==
  LET n == w.notifyCalls[c] + 1
      m == NotificationMsg(method, n)
      w1 == [w EXCEPT !.notifyCalls[c] = n]
  IN IF ~w1.ready[c]
       THEN [w1 EXCEPT !.queuedNotifications[c] = Append(@, m)]
       ELSE Send(w1, c, m)

RECURSIVE SendEach(_, _, _)
SendEach(w, c, msgs) ==
  IF msgs = <<>> THEN w ELSE SendEach(Send(w, c, Head(msgs)), c, Tail(msgs))

\* flushNotifications()
FlushNotifications(w, c) ==
  IF ~w.ready[c] \/ ~w.process[c]
    THEN w
    ELSE SendEach([w EXCEPT !.queuedNotifications[c] = <<>>], c, w.queuedNotifications[c])

\* requestInternal() from `const id = this.nextId++` on: register the waiter, send.
RegisterAndSend(w, c, waiter, method) ==
  LET id == w.nextId[c]
      p == w.pending[c]
      w1 == [w EXCEPT !.nextId[c] = id + 1,
                      !.pending[c] = [i \in DOMAIN p \cup {id} |-> IF i = id THEN waiter ELSE p[i]]]
  IN Send(w1, c, RequestMsg(id, method))

\* request(method, params) up to its first suspension, called by task t: the
\* two checks of requestInternal, then `await this.readyPromise`.  A rejection
\* of requestInternal's promise reaches the caller's continuation through the
\* promise of request(), which adopts it.
RequestBegin(w, t, c) ==
  IF ~w.process[c] \/ w.readyPromise[c] = "null"
    THEN Enqueue([w EXCEPT !.tasks[t].c = c, !.tasks[t].pc = "settled", !.tasks[t].res = "err"],
                 "task", t, 2)
    ELSE IF w.readyPromise[c] = "pending"
      THEN [w EXCEPT !.tasks[t].c = c, !.tasks[t].pc = "awaitReady",
                     !.readyWaiters[c] = Append(@, t)]
      ELSE Enqueue([w EXCEPT !.tasks[t].c = c, !.tasks[t].pc = "readySettled"], "task", t, 0)

\* requestInternal() after `await this.readyPromise`.
RequestAfterReady(w, t) ==
  LET c == w.tasks[t].c IN
  IF w.readyPromise[c] = "rejected"
    THEN Enqueue([w EXCEPT !.tasks[t].pc = "settled", !.tasks[t].res = "err"], "task", t, 1)
    ELSE LET method == IF w.tasks[t].kind = "request" THEN "textDocument/completion" ELSE "shutdown"
             w1 == RegisterAndSend(w, c, t, method)
         IN [w1 EXCEPT !.tasks[t].pc = "awaitResp", !.tasks[t].id = w.nextId[c]]

\* pending.resolve / pending.reject of one waiter (res "ok" or "err"): the
\* promise is settled; the continuation that awaits it is two reactions away
\* (requestInternal's promise, then the .catch of initialize() or the promise
\* of request()).
Settle(w, c, id, waiter, res) ==
  LET w1 == [w EXCEPT !.settleCount[c][id] = @ + 1]
  IN IF waiter = 0
       THEN Enqueue([w1 EXCEPT !.initResume[c] = res], "init", c, 2)
       ELSE Enqueue([w1 EXCEPT !.tasks[waiter].pc = "settled", !.tasks[waiter].res = res],
                    "task", waiter, 2)

\* a diagnostic that starts on line `line` (the first line is 0)
OnLine(diagnostic, line) == [diagnostic EXCEPT !.range = <<line, 0, line, 1>>]

\* params.diagnostics of a publishDiagnostics frame: seq 0 carries none, 1
\* one diagnostic on line 0, 2 one whose message matches a noise pattern, 3
\* both of them; from 4 on one with such a message on line seq - 3
PublishedDiagnostics(m) ==
  IF m.seq = 0 THEN <<>>
  ELSE IF m.seq <= 2 THEN <<Diagnostic("clangd", 0, 0, m.seq = 2)>>
  ELSE IF m.seq = 3 THEN <<Diagnostic("clangd", 0, 0, TRUE), Diagnostic("clangd", 0, 0, FALSE)>>
  ELSE <<OnLine(Diagnostic("clangd", 0, 0, TRUE), m.seq - 3)>>

\* the checker's Promise.race is settled by the first of its two promises
\* that resolves: the race's reaction to that promise is one job, the
\* continuation of the `await` in runClangdDiagnostics (task t) the next
RaceSettles(w, t, winner, value) ==
  IF w.check.race # "pending" THEN w
  ELSE Enqueue([w EXCEPT !.check.race = "settled", !.check.winner = winner,
                         !.check.value = value, !.tasks[t].pc = "raceSettled"],
               "task", t, 1)

\* the task that runs the checker
CheckerTasks == {1}

\* the callback runClangdDiagnostics gives to client.onDiagnostics: a report
\* on the file (uri 0) resolves diagnosticsPromise; resolving it again does
\* nothing
CheckerOnDiagnostics(w, uri, diagnostics) ==
  IF uri # 0 \/ w.check.promise # "pending" THEN w
  ELSE RaceSettles([w EXCEPT !.check.promise = "resolved", !.check.resolved = diagnostics],
                   CHOOSE t \in CheckerTasks : TRUE, "diagnostics", diagnostics)

\* handleNotification(): publishDiagnostics goes to the diagnostics callback.
\* The id field of a publishDiagnostics frame stands for params.uri (0: the
\* document, 1: another file).
HandleNotification(w, c, m) ==
  IF m.method = "textDocument/publishDiagnostics" /\ w.onDiagnosticsCallback[c] # "null"
    THEN LET w1 == [w EXCEPT !.cbCount[c] = @ + 1]
         IN IF w.onDiagnosticsCallback[c] = "server"
              THEN OnDiagnostics(w1, PublishedDiagnostics(m))
            ELSE IF w.onDiagnosticsCallback[c] = "checker"
              THEN CheckerOnDiagnostics(w1, m.id, PublishedDiagnostics(m))
            ELSE w1
    ELSE w

\* mutant: a reverse request is not answered
HandleServerRequestSilent(w, c, m) == w

\* handleServerRequest(): it has no `await`, so it runs to its end inside the
\* handleMessage call that started it.
HandleServerRequest(w, c, m) ==
  Send(w, c, IF m.method = "workspace/configuration" THEN ReplyMsg(m.id, "[{}]", m.seq)
             ELSE IF m.method = "workspace/applyEdit" THEN ReplyMsg(m.id, "{applied:false}", 0)
             ELSE ReplyMsg(m.id, "null", 0))

\* mutant: the entry of an answered request stays in the pending table
HandleMessageKeepsEntry(w, c, m) ==
  IF m.kind = "serverRequest" THEN HandleServerRequest(w, c, m)
  ELSE IF m.kind = "notification" THEN HandleNotification(w, c, m)
  ELSE IF m.id \notin DOMAIN w.pending[c] THEN w
  ELSE LET w1 == [w EXCEPT !.initAnswered[c] = @ \/ w.pending[c][m.id] = 0]
       IN Settle(w1, c, m.id, w.pending[c][m.id], IF m.method = "error" THEN "err" ELSE "ok")

\* handleMessage(): a response is matched by id against the pending table,
\* its entry deleted, and the waiter rejected iff the response has an error.
HandleMessage(w, c, m) ==
  IF m.kind = "serverRequest" THEN HandleServerRequest(w, c, m)
  ELSE IF m.kind = "notification" THEN HandleNotification(w, c, m)
  ELSE IF m.id \notin DOMAIN w.pending[c] THEN w
  ELSE LET p == w.pending[c]
           w1 == [w EXCEPT !.pending[c] = [i \in DOMAIN p \ {m.id} |-> p[i]],
                           !.initAnswered[c] = @ \/ p[m.id] = 0]
       IN Settle(w1, c, m.id, p[m.id], IF m.method = "error" THEN "err" ELSE "ok")

\* ------------------------------------------------ ClangdClient: the framing
\* A byte is written as a string: an ASCII character stands for its own byte,
\* "SP" "CR" "LF" are space, carriage return and line feed, "CL" abbreviates
\* the bytes of `Content-Length:`, and "C3" "A9" are the two bytes of the
\* character e-acute in UTF-8.
CRLFCRLF == <<"CR", "LF", "CR", "LF">>

IsDigit(b) == \E i \in DOMAIN Digits : Digits[i] = b
IsSpace(b) == b \in {"SP", "CR", "LF"}

\* Number.parseInt(digits, 10)
RECURSIVE ParseInt(_)
ParseInt(ds) ==
  IF ds = <<>> THEN 0
  ELSE 10 * ParseInt(SubSeq(ds, 1, Len(ds) - 1))
       + (CHOOSE i \in DOMAIN Digits : Digits[i] = ds[Len(ds)]) - 1

\* the UTF-8 bytes of a text
RECURSIVE Utf8Encode(_)
Utf8Encode(text) ==
  IF text = <<>> THEN <<>>
  ELSE (IF Head(text) = "e_acute" THEN <<"C3", "A9">> ELSE <<Head(text)>>) \o Utf8Encode(Tail(text))

\* buffer.toString('utf8'): a byte that is no character becomes U+FFFD
RECURSIVE Utf8Decode(_)
Utf8Decode(bytes) ==
  IF bytes = <<>> THEN <<>>
  ELSE IF Head(bytes) = "C3" /\ Len(bytes) > 1 /\ bytes[2] = "A9"
    THEN <<"e_acute">> \o Utf8Decode(Tail(Tail(bytes)))
  ELSE IF Head(bytes) \in {"C3", "A9"}
    THEN <<"FFFD">> \o Utf8Decode(Tail(bytes))
  ELSE <<Head(bytes)>> \o Utf8Decode(Tail(bytes))

\* The messages the framing is checked with: the answer to `initialize`, a
\* publishDiagnostics notification and a reverse request.
FrameMessages ==
  {ResponseMsg(1, FALSE),
   NotificationMsg("textDocument/publishDiagnostics", 1),
   ServerRequestMsg("workspace/configuration", 1, 2)}

\* JSON.stringify(message), shortened to a few characters for each member;
\* the text of the notification holds a character outside ASCII.
JsonText(m) ==
  <<"{">>
  \o (IF m.kind = "response" THEN <<"r">>
      ELSE IF m.kind = "notification" THEN <<"n">>
      ELSE <<"s">>)
  \o (IF m.method = "result" THEN <<"r">>
      ELSE IF m.method = "error" THEN <<"e">>
      ELSE IF m.method = "textDocument/publishDiagnostics" THEN <<"d", "e_acute">>
      ELSE <<"c", "o", "n", "f", "i", "g">>)
  \o <<Digits[m.id + 1], Digits[m.seq + 1], "}">>

SyntaxError == [kind |-> "SyntaxError", method |-> "", id |-> 0, seq |-> 0]

\* JSON.parse(body): the message whose text body is, else it throws
JsonParse(body) ==
  IF \E m \in FrameMessages : JsonText(m) = body
    THEN CHOOSE m \in FrameMessages : JsonText(m) = body
    ELSE SyntaxError

\* a frame on the wire: the header with the byte length of the body, a blank
\* line, the body
WireFrame(body) ==
  <<"CL", "SP">> \o Decimal(Len(body)) \o CRLFCRLF \o body

\* what send() writes for a payload: Buffer.byteLength(payload, 'utf8') in
\* the header, then header + payload in UTF-8
Encode(payload) == WireFrame(Utf8Encode(payload))

\* buffer.indexOf(pattern): the offset of its first occurrence, else -1
IndexOf(buf, pattern) ==
  LET at == {i \in 0..(Len(buf) - Len(pattern)) : SubSeq(buf, i + 1, i + Len(pattern)) = pattern}
  IN IF at = {} THEN -1 ELSE CHOOSE i \in at : \A j \in at : i <= j

\* buffer.slice(from)
Slice(buf, from) == SubSeq(buf, from + 1, Len(buf))

RECURSIVE SkipSpace(_, _)
SkipSpace(header, j) ==
  IF j <= Len(header) /\ IsSpace(header[j]) THEN SkipSpace(header, j + 1) ELSE j

RECURSIVE DigitRun(_, _)
DigitRun(header, j) ==
  IF j <= Len(header) /\ IsDigit(header[j])
    THEN <<header[j]>> \o DigitRun(header, j + 1)
    ELSE <<>>

\* /Content-Length:\s*(\d+)/i.exec(header): the digits of the leftmost match,
\* << >> for null
LengthMatch(header) ==
  LET at == {i \in DOMAIN header : /\ header[i] = "CL"
                                   /\ DigitRun(header, SkipSpace(header, i + 1)) # <<>>}
  IN IF at = {} THEN <<>>
     ELSE DigitRun(header, SkipSpace(header, (CHOOSE i \in at : \A j \in at : i <= j) + 1))

\* mutant: a body that does not parse is put back in front of the buffer
DispatchBodyKeepsMalformed(w, c, body) ==
  LET message == JsonParse(body)
  IN IF message = SyntaxError
       THEN [w EXCEPT !.parseErrors[c] = @ + 1, !.buffer[c] = Utf8Encode(body) \o @]
       ELSE HandleMessage([w EXCEPT !.dispatched[c] = Append(@, message)], c, message)

\* the try block of handleData: parse the body and dispatch the message; a
\* body that does not parse is logged
DispatchBody(w, c, body) ==
  LET message == JsonParse(body)
  IN IF message = SyntaxError
       THEN [w EXCEPT !.parseErrors[c] = @ + 1]
       ELSE HandleMessage([w EXCEPT !.dispatched[c] = Append(@, message)], c, message)

\* mutant: the length of the body is taken from the first digit only
MessageLengthFirstDigit(lengthMatch) == ParseInt(<<Head(lengthMatch)>>)

\* messageLength in handleData
MessageLength(lengthMatch) == ParseInt(lengthMatch)

\* the loop of handleData over this.buffer
RECURSIVE ConsumeFrames(_, _)
ConsumeFrames(w, c) ==
  LET buf == w.buffer[c]
      headerEnd == IndexOf(buf, CRLFCRLF)
  IN IF headerEnd = -1 THEN w
     ELSE LET header == SubSeq(buf, 1, headerEnd)
              lengthMatch == LengthMatch(header)
          IN IF lengthMatch = <<>>
               THEN ConsumeFrames([w EXCEPT !.buffer[c] = Slice(buf, headerEnd + 4)], c)
               ELSE LET messageLength == MessageLength(lengthMatch)
                        totalLength == headerEnd + 4 + messageLength
                    IN IF Len(buf) < totalLength THEN w
                       ELSE LET body == Utf8Decode(SubSeq(buf, headerEnd + 5, totalLength))
                                w1 == [w EXCEPT !.buffer[c] = Slice(buf, totalLength)]
                            IN ConsumeFrames(DispatchBody(w1, c, body), c)

\* handleData(chunk)
HandleData(w, c, chunk) ==
  LET w1 == ConsumeFrames([w EXCEPT !.buffer[c] = @ \o chunk], c)
  IN [w1 EXCEPT !.split = @ \/ w1.buffer[c] # <<>>]

\* handleData(): every complete frame in the buffer is dispatched, in order.
RECURSIVE HandleFrames(_, _, _)
HandleFrames(w, c, k) ==
  IF k = 0 \/ w.buffered[c] = <<>>
    THEN w
    ELSE HandleFrames(HandleMessage([w EXCEPT !.buffered[c] = Tail(@)], c, Head(w.buffered[c])),
                      c, k - 1)

\* the 'exit' listener installed by start()
RECURSIVE RejectAll(_, _, _)
RejectAll(w, c, ids) ==
  IF ids = {} THEN w
  ELSE LET id == CHOOSE i \in ids : TRUE
       IN RejectAll(Settle(w, c, id, w.pending[c][id], "err"), c, ids \ {id})

\* mutant: the pending table is cleared without rejecting its waiters
ExitHandlerWithoutReject(w, c) ==
  [w EXCEPT !.ready[c] = FALSE, !.process[c] = FALSE, !.pending[c] = << >>]

ExitHandler(w, c) ==
  LET w1 == [w EXCEPT !.ready[c] = FALSE, !.process[c] = FALSE]
      w2 == RejectAll(w1, c, DOMAIN w1.pending[c])
  IN [w2 EXCEPT !.pending[c] = << >>]

\* start() up to `await this.readyPromise`: spawn, install the listeners,
\* call initialize(), which sends the `initialize` request past the gate.
StartBegin(w, c) ==
  IF w.process[c]
    THEN w
    ELSE RegisterAndSend([w EXCEPT !.process[c] = TRUE, !.os[c] = "running",
                                   !.readyPromise[c] = "pending"],
                         c, 0, "initialize")

\* The readyPromise settles: its reactions are queued in registration order.
\* The caller of start() is one more reaction away than a request().
RECURSIVE WakeReadyWaiters(_, _, _)
WakeReadyWaiters(w, ws, res) ==
  IF ws = <<>> THEN w
  ELSE LET t == Head(ws)
           w1 == IF w.tasks[t].pc = "awaitStart"
                   THEN Enqueue([w EXCEPT !.tasks[t].pc = "startSettled", !.tasks[t].res = res],
                                "task", t, 1)
                   ELSE Enqueue([w EXCEPT !.tasks[t].pc = "readySettled"], "task", t, 0)
       IN WakeReadyWaiters(w1, Tail(ws), res)

\* mutant: the queue is flushed before `initialized` is sent
InitializeResumeFlushFirst(w, c) ==
  LET ok == w.initResume[c] = "ok"
      w1 == IF ok
              THEN Notify(FlushNotifications([w EXCEPT !.ready[c] = TRUE], c), c, "initialized")
              ELSE w
      w2 == [w1 EXCEPT !.initResume[c] = "none",
                       !.readyPromise[c] = IF ok THEN "resolved" ELSE "rejected",
                       !.readyWaiters[c] = <<>>]
  IN WakeReadyWaiters(w2, w.readyWaiters[c], IF ok THEN "ok" ELSE "err")

\* initialize() after the response to the `initialize` request; its return
\* or its throw settles the readyPromise.
InitializeResume(w, c) ==
  LET ok == w.initResume[c] = "ok"
      w1 == IF ok
              THEN FlushNotifications(Notify([w EXCEPT !.ready[c] = TRUE], c, "initialized"), c)
              ELSE w
      w2 == [w1 EXCEPT !.initResume[c] = "none",
                       !.readyPromise[c] = IF ok THEN "resolved" ELSE "rejected",
                       !.readyWaiters[c] = <<>>]
  IN WakeReadyWaiters(w2, w.readyWaiters[c], IF ok THEN "ok" ELSE "err")

\* stop() has settled: the `await` of its caller in stopClangd is queued; a
\* rejection passes through stopClangd to the `await` in ensureClangd.
StopSettled(w, t, threw) ==
  LET w1 == [w EXCEPT !.tasks[t].pc = IF threw THEN "stopThrew" ELSE "stopReturned"]
  IN IF w.tasks[t].kind \in {"ensure", "check"}
       THEN Enqueue(w1, "task", t, IF threw THEN 1 ELSE 0)
       ELSE w1

\* stop() up to its first suspension.
StopBegin(w, t, c) ==
  IF ~w.process[c]
    THEN StopSettled([w EXCEPT !.tasks[t].c = c], t, FALSE)
    ELSE RequestBegin(w, t, c)

\* stop() after `await this.request('shutdown')`, whose failure is ignored:
\* notify('exit'), then this.process.kill() (a TypeError when the handle is
\* null by now), then the fields are cleared.
StopResume(w, t) ==
  LET c == w.tasks[t].c
      w1 == Notify(w, c, "exit")
  IN IF ~w1.process[c]
       THEN StopSettled(w1, t, TRUE)
       ELSE StopSettled([w1 EXCEPT !.os[c] = IF @ = "running" THEN "killed" ELSE @,
                                   !.process[c] = FALSE,
                                   !.ready[c] = FALSE,
                                   !.pending[c] = << >>,
                                   !.queuedNotifications[c] = <<>>],
                        t, FALSE)

\* ------------------------------------------------------------ event loop

\* No microtask is queued: the next macrotask may run.
Quiescent == microtasks = <<>>

\* The job at the head of the queue resumes this continuation.
Turn(kind, n) ==
  /\ microtasks # <<>>
  /\ Head(microtasks).kind = kind
  /\ Head(microtasks).n = n
  /\ Head(microtasks).hops = 0

\* the state once the head job has been taken off the queue
Dequeued == [Cur EXCEPT !.microtasks = Tail(@)]

\* A reaction that only passes a settlement on to the next promise.
PromiseReaction ==
  /\ microtasks # <<>>
  /\ Head(microtasks).hops > 0
  /\ SetClient([Cur EXCEPT !.microtasks = Append(Tail(@), [Head(@) EXCEPT !.hops = @ - 1])])

\* Async calls take the lowest free slot of the task table.
FreeTask(t) ==
  /\ tasks[t].kind = "none"
  /\ \A u \in 1..(t - 1) : tasks[u].kind # "none"

\* The server drops its reference to a client in the continuation of stop()
\* (stopClangd), so no call is made on a client whose stop() has returned.
Released(c) == \E t \in TaskIds : tasks[t].c = c /\ tasks[t].pc = "stopReturned"

\* no document is open and nothing has been sent to the editor
InitDocument ==
  /\ changeEvents = 0
  /\ globalSettings = 0
  /\ documentSettings = 0
  /\ lookups = <<>>
  /\ docOpen = FALSE
  /\ docObj = 0
  /\ objVersion = [o \in 1..MaxEvents |-> 0]
  /\ events = 0
  /\ localDiagnosticsVersion = 0
  /\ published = "never"
  /\ sendFlip = FALSE
  /\ superseded = {}
  /\ validations = <<>>
  /\ diagCallbacks = <<>>

\* the first line of the document has a Basilisk construct
KeywordText == docText = <<TRUE>>

\* no merge function is being called
NoCall == call = [fn |-> "none"]

\* nothing has been received from a child
InitStdout ==
  /\ buffer = [c \in Clients |-> <<>>]
  /\ dispatched = [c \in Clients |-> <<>>]
  /\ parseErrors = [c \in Clients |-> 0]
  /\ split = FALSE
  /\ uncaught = 0
  /\ runDiag = NoRun
  /\ docs = NoDocs
  /\ temp = NoTemp
  /\ check = NoCheck
  /\ tempFile = "absent"

\* the byte stream of the child is not looked at
NoWire ==
  /\ frames = <<>>
  /\ wire = <<>>

InitClientFields ==
  /\ process = [c \in Clients |-> FALSE]
  /\ os = [c \in Clients |-> "none"]
  /\ buffered = [c \in Clients |-> <<>>]
  /\ nextId = [c \in Clients |-> 1]
  /\ pending = [c \in Clients |-> << >>]
  /\ ready = [c \in Clients |-> FALSE]
  /\ readyPromise = [c \in Clients |-> "null"]
  /\ initResume = [c \in Clients |-> "none"]
  /\ queuedNotifications = [c \in Clients |-> <<>>]
  /\ stdin = [c \in Clients |-> <<>>]
  /\ notifyCalls = [c \in Clients |-> 0]
  /\ initAnswered = [c \in Clients |-> FALSE]
  /\ emitted = [c \in Clients |-> 0]
  /\ answered = [c \in Clients |-> {}]
  /\ cbCount = [c \in Clients |-> 0]
  /\ settleCount = [c \in Clients |-> [i \in 1..MaxId |-> 0]]
  /\ tasks = [t \in TaskIds |-> NoTask]
  /\ microtasks = <<>>
  /\ readyWaiters = [c \in Clients |-> <<>>]
  /\ clangdClient = 0
  /\ clangdConfigKey = 0
  /\ created = 0
  /\ clangdDiagnosticsGeneration = 0
  /\ onDiagnosticsCallback = [c \in Clients |-> "null"]
  /\ InitDocument
  /\ KeywordText
  /\ InitStdout

\* the editor did not announce workspace.configuration in `initialize`
NoCapability == hasConfigurationCapability = FALSE

\* both diagnostics caches are empty, the settings are the defaults
NoCaches ==
  /\ clangdDiagnostics = "none"
  /\ localDiagnostics = "none"
  /\ settings = DefaultSettings

InitClient ==
  /\ NoCall
  /\ InitClientFields
  /\ NoCapability
  /\ NoCaches
  /\ NoWire

\* -------------------------------------------- the child process (environment)

\* Reverse requests the child may make; it numbers them by itself, so an id
\* may equal that of a request of the client.
ServerRequests ==
  {ServerRequestMsg("workspace/configuration", 1, 2),
   ServerRequestMsg("workspace/applyEdit", 1, 0),
   ServerRequestMsg("window/workDoneProgress/create", 2, 0)}

\* Frames the child may write: a result or an error for a request it has read,
\* a publishDiagnostics notification, or a reverse request.
Emittable(c) ==
  {ResponseMsg(stdin[c][i].id, e) :
     i \in {j \in DOMAIN stdin[c] : stdin[c][j].kind = "request"}, e \in BOOLEAN}
  \cup {NotificationMsg("textDocument/publishDiagnostics", 0)}
  \cup ServerRequests

ProcessWrites(c, m) ==
  /\ Quiescent
  /\ os[c] = "running"
  /\ emitted[c] < MaxEmit
  /\ SetClient([Cur EXCEPT !.buffered[c] = Append(@, m), !.emitted[c] = @ + 1,
                           !.answered[c] = IF m.kind = "response" THEN @ \cup {m.id} ELSE @])

\* A child that follows the protocol answers a request once.
ProcessAnswers(c, m) ==
  /\ Quiescent
  /\ os[c] = "running"
  /\ m.kind = "response"
  /\ m.id \notin answered[c]
  /\ SetClient([Cur EXCEPT !.buffered[c] = Append(@, m), !.emitted[c] = @ + 1,
                           !.answered[c] = @ \cup {m.id}])

\* stdout 'data': a chunk holding k frames reaches handleData.  The listener
\* is never removed, so what the child wrote before it died still arrives.
StdoutData(c, k) ==
  /\ Quiescent
  /\ k \in 1..MaxChunk
  /\ k <= Len(buffered[c])
  /\ SetClient(HandleFrames(Cur, c, k))

\* 'error': the executable could not be run.  spawn() has returned a
\* ChildProcess all the same and reports the failure by this event; start()
\* installs listeners for stdout, stderr and 'exit' only, so the event has no
\* listener and is thrown as an uncaught exception.
SpawnError(c) ==
  /\ Quiescent
  /\ os[c] = "running"
  /\ emitted[c] = 0
  /\ SetClient([Cur EXCEPT !.os[c] = "failed", !.uncaught = @ + 1])

\* 'exit': the child has exited by itself or after kill(); after an 'error'
\* the event may or may not follow.
ProcessExit(c) ==
  /\ Quiescent
  /\ os[c] \in {"running", "killed", "failed"}
  /\ SetClient(ExitHandler([Cur EXCEPT !.os[c] = "exited"], c))

\* ------------------------------------------------------------- microtasks

ResumeInitialize(c) ==
  /\ Turn("init", c)
  /\ SetClient(InitializeResume(Dequeued, c))

ResumeAfterReady(t) ==
  /\ Turn("task", t)
  /\ tasks[t].pc = "readySettled"
  /\ SetClient(RequestAfterReady(Dequeued, t))

\* the caller of request() sees the result or the rejection; a request
\* handler of the server then answers the editor with what the analyzer
\* returned (merged with its own answer), or from its catch block with its
\* own answer
ResumeRequest(t) ==
  /\ Turn("task", t)
  /\ tasks[t].kind = "request"
  /\ tasks[t].pc = "settled"
  /\ SetClient([Dequeued EXCEPT !.tasks[t].pc = IF tasks[t].res = "ok" THEN "resolved" ELSE "rejected",
                                !.tasks[t].answer = IF @ = "none" THEN "none"
                                                    ELSE IF tasks[t].res = "ok" THEN "analyzer"
                                                    ELSE "local"])

ResumeStop(t) ==
  /\ Turn("task", t)
  /\ tasks[t].kind \in {"stop", "ensure", "check"}
  /\ tasks[t].pc = "settled"
  /\ SetClient(StopResume(Dequeued, t))

\* ----------------------------------------- calls on one client (SpecClient)
TheClient == 1

\* start() is called once on a client, right after its construction
CallStart ==
  /\ Quiescent
  /\ os[TheClient] = "none"
  /\ SetClient(StartBegin([Cur EXCEPT !.onDiagnosticsCallback[TheClient] = "stub"], TheClient))

CallRequest(t) ==
  /\ Quiescent
  /\ FreeTask(t)
  /\ os[TheClient] # "none"
  /\ ~Released(TheClient)
  /\ SetClient(RequestBegin([Cur EXCEPT !.tasks[t].kind = "request"], t, TheClient))

CallStop(t) ==
  /\ Quiescent
  /\ FreeTask(t)
  /\ os[TheClient] # "none"
  /\ ~Released(TheClient)
  /\ SetClient(StopBegin([Cur EXCEPT !.tasks[t].kind = "stop"], t, TheClient))

\* forwardDidChange and its siblings: a notify() call per document event
CallNotify(method) ==
  /\ Quiescent
  /\ os[TheClient] # "none"
  /\ ~Released(TheClient)
  /\ notifyCalls[TheClient] < MaxNotify
  /\ SetClient(Notify(Cur, TheClient, method))

ForwardedMethods == {"textDocument/didChange"}

\* what the child process and the event loop do, whoever drives the client
NextClientEvents ==
  \/ \E m \in Emittable(TheClient) : ProcessWrites(TheClient, m)
  \/ \E k \in 1..MaxChunk : StdoutData(TheClient, k)
  \/ ProcessExit(TheClient)
  \/ SpawnError(TheClient)
  \/ ResumeInitialize(TheClient)
  \/ \E t \in TaskIds : ResumeAfterReady(t)
  \/ \E t \in TaskIds : ResumeRequest(t)
  \/ \E t \in TaskIds : ResumeStop(t)
  \/ PromiseReaction

\* one client under overlapping request() and stop() calls
NextClient ==
  \/ CallStart
  \/ \E t \in 1..MaxCalls : CallRequest(t)
  \/ \E t \in 1..MaxCalls : CallStop(t)
  \/ NextClientEvents

\* one client under notify() calls, with few request() and stop() calls
NextNotify ==
  \/ CallStart
  \/ \E m \in ForwardedMethods : CallNotify(m)
  \/ \E t \in 1..MaxQueueCalls : CallRequest(t)
  \/ \E t \in 1..MaxQueueCalls : CallStop(t)
  \/ NextClientEvents

SpecClient == InitClient /\ [][NextClient]_vars

SpecNotify == InitClient /\ [][NextNotify]_vars

\* -------------------------------------------- the byte stream (SpecFrame)
\* bodies with an honest Content-Length that JSON.parse rejects: a truncated
\* text, a blank-line sequence, half a character, and the bytes of a header
MalformedBodies ==
  {<<"{", "r">>,
   CRLFCRLF,
   <<"C3">>,
   <<"CL", "SP", "1">> \o CRLFCRLF \o <<"}">>}

\* the body of the frame that carries message m
BodyOf(m) == Utf8Encode(JsonText(m))

FrameBodies == {BodyOf(m) : m \in FrameMessages} \cup MalformedBodies

\* the bytes of a sequence of frames
RECURSIVE Stream(_)
Stream(bodies) ==
  IF bodies = <<>> THEN <<>> ELSE WireFrame(Head(bodies)) \o Stream(Tail(bodies))

\* The child will write some frames; the client is not started yet.
InitFrame ==
  /\ NoCall
  /\ InitClientFields
  /\ NoCapability
  /\ NoCaches
  /\ frames \in UNION {[1..n -> FrameBodies] : n \in 0..MaxFrames}
  /\ wire = Stream(frames)

\* stdout 'data': the next n bytes of the stream reach handleData
Deliver(n) ==
  /\ Quiescent
  /\ os[TheClient] = "running"
  /\ n \in 1..Len(wire)
  /\ SetClient(HandleData([Cur EXCEPT !.wire = Slice(wire, n)], TheClient, SubSeq(wire, 1, n)))

NextFrame ==
  \/ CallStart
  \/ \E n \in 1..Len(wire) : Deliver(n)
  \/ ResumeInitialize(TheClient)
  \/ PromiseReaction

SpecFrame == InitFrame /\ [][NextFrame]_vars

\* ------------------------------------ publishDiagnostics (SpecPublish)
\* Diagnostics whose messages and sources hold the separator of the key, and
\* two that differ from the first in the range or in the severity only.
SampleDiagnostics ==
  {TextDiagnostic(<<0, 0, 0, 1>>, 1, m, o) :
     m \in {<<"a">>, <<"a", ":", "b">>}, o \in {<<"c">>, <<"b", ":", "c">>}}
  \cup {TextDiagnostic(<<0, 0, 0, 2>>, 1, <<"a">>, <<"c">>),
        TextDiagnostic(<<0, 0, 0, 1>>, 2, <<"a">>, <<"c">>)}

\* the lists of at most n of them
RECURSIVE ListsUpTo(_)
ListsUpTo(n) ==
  IF n = 0 THEN {<<>>}
  ELSE ListsUpTo(n - 1) \cup {Append(l, d) : l \in ListsUpTo(n - 1), d \in SampleDiagnostics}

DiagnosticLists == ListsUpTo(MaxList)

\* values of the setting basilisk.maxNumberOfProblems, which the server takes
\* from the editor as it is
ProblemLimits == {-1, 1, maxNumberOfProblems}

\* the caches hold some diagnostics of the document
InitPublish ==
  /\ NoCall
  /\ InitClientFields
  /\ NoCapability
  /\ NoWire
  /\ clangdDiagnostics \in DiagnosticLists
  /\ localDiagnostics \in DiagnosticLists
  /\ settings \in {[DefaultSettings EXCEPT !.maxNumberOfProblems = n] : n \in ProblemLimits}

\* publishDiagnostics(uri, settings) is called
Publish == SetClient(PublishDiagnostics(Cur))

NextPublish == Publish

SpecPublish == InitPublish /\ [][NextPublish]_vars

\* ------------------------------------------- server: the analyzer session
Keys == {1, 2}

\* stopClangd() after `await clangdClient.stop()`
StopClangdTail(w) ==
  [w EXCEPT !.clangdClient = 0,
            !.clangdConfigKey = 0,
            !.clangdDiagnostics = "none",
            !.clangdDiagnosticsGeneration = 0]

\* what ensureClangd looks at in its arguments: settings.clangd.enabled,
\* settings.clangd.mode and qccAvailable
ClangdInputs == [enabled : BOOLEAN, mode : {"proxy", "augment"}, qccAvailable : BOOLEAN]

\* shouldEnable in ensureClangd
ShouldEnable(s) == s.enabled /\ s.mode = "proxy" /\ ~s.qccAvailable

\* mutant: the reference is dropped without stopping the client
StopClangdBeginWithoutStop(w, t) ==
  Enqueue([StopClangdTail(w) EXCEPT !.tasks[t].pc = "stopClangdReturned"], "task", t, 0)

\* stopClangd() up to its first suspension: without a client it runs to its
\* end at once, and only its caller's `await` is left.
StopClangdBegin(w, t) ==
  IF w.clangdClient # 0
    THEN StopBegin(w, t, w.clangdClient)
    ELSE Enqueue([StopClangdTail(w) EXCEPT !.tasks[t].pc = "stopClangdReturned"], "task", t, 0)

\* stopClangd() resumed by the return of stop()
StopClangdResume(w, t) ==
  Enqueue([StopClangdTail(w) EXCEPT !.tasks[t].pc = "stopClangdReturned"], "task", t, 0)

\* ensureClangd() returns or throws: the `await ensureClangd(...)` of the
\* handler that called it is queued
EnsureSettles(w, t, threw) ==
  Enqueue([w EXCEPT !.tasks[t].pc = IF threw THEN "ensureThrew" ELSE "ensureReturned"],
          "handler", t, 0)

\* `clangdClient && clangdConfigKey === nextKey && clangdClient.isReady()`
SameSession(w, key) ==
  w.clangdClient # 0 /\ w.clangdConfigKey = key /\ w.ready[w.clangdClient]

\* mutant: the fingerprint is not compared
EnsureBeginAlwaysRestarts(w, t, enabled, key) ==
  LET w1 == [w EXCEPT !.tasks[t].kind = "ensure", !.tasks[t].enabled = enabled,
                      !.tasks[t].key = key, !.tasks[t].same = SameSession(w, key)]
  IN StopClangdBegin([w1 EXCEPT !.tasks[t].phase = IF enabled THEN "restart" ELSE "disable"], t)

\* ensureClangd(settings, qccAvailable) up to its first suspension; enabled is
\* shouldEnable and key is buildClangdConfigKey of the arguments; the task
\* notes in `same` whether the call found a ready session with that key.
EnsureBegin(w, t, enabled, key) ==
  LET w1 == [w EXCEPT !.tasks[t].kind = "ensure", !.tasks[t].enabled = enabled,
                      !.tasks[t].key = key, !.tasks[t].same = SameSession(w, key)]
  IN IF ~enabled
       THEN StopClangdBegin([w1 EXCEPT !.tasks[t].phase = "disable"], t)
       ELSE IF SameSession(w1, key)
         THEN EnsureSettles(w1, t, FALSE)
         ELSE StopClangdBegin([w1 EXCEPT !.tasks[t].phase = "restart"], t)

\* the catch block of ensureClangd: `await stopClangd(); throw error`
EnsureCatch(w, t) ==
  StopClangdBegin([w EXCEPT !.tasks[t].phase = "catch"], t)

\* ensureClangd() after an `await stopClangd()`; threw: stopClangd rejected.
EnsureAfterStopClangd(w, t, threw) ==
  LET phase == w.tasks[t].phase IN
  IF phase = "disable"
    THEN EnsureSettles(w, t, threw)
  ELSE IF phase = "restart"
    THEN IF threw
           THEN EnsureSettles(w, t, TRUE)
           ELSE LET c == w.created + 1
                    w1 == [w EXCEPT !.created = c, !.clangdClient = c,
                                    !.onDiagnosticsCallback[c] = "server"]
                IN [StartBegin(w1, c) EXCEPT !.tasks[t].c = c, !.tasks[t].pc = "awaitStart",
                                             !.tasks[t].id = 0, !.tasks[t].res = "none",
                                             !.readyWaiters[c] = <<t>>]
  ELSE IF phase = "notready"
    THEN EnsureCatch(w, t)
  ELSE EnsureSettles(w, t, TRUE)

\* ensureClangd() after `await clangdClient.start(initializeParams)`; the
\* readiness test reads the global clangdClient.
EnsureAfterStart(w, t) ==
  IF w.tasks[t].res = "err"
    THEN EnsureCatch(w, t)
    ELSE LET w1 == [w EXCEPT !.clangdConfigKey = w.tasks[t].key] IN
         IF w1.clangdClient = 0
           THEN EnsureCatch(w1, t)
         ELSE IF ~w1.ready[w1.clangdClient]
           THEN StopClangdBegin([w1 EXCEPT !.tasks[t].phase = "notready"], t)
         ELSE EnsureSettles(w1, t, FALSE)

\* An ensureClangd call that restarts the session constructs one client.
ClientsLeft ==
  created + Cardinality({t \in TaskIds : /\ tasks[t].kind = "ensure"
                                         /\ tasks[t].phase = "restart"
                                         /\ tasks[t].pc \notin {"awaitStart", "startSettled",
                                                                "ensureReturned", "ensureThrew"}})
    < MaxClients

\* A handler reaches its ensureClangd call (its settings refresh and its
\* compiler probe are behind it) with some settings; w carries what the
\* handler did to the per-document settings cache before that.
HandlerCallsEnsureClangd(w, t, enabled, key) ==
  /\ Quiescent
  /\ FreeTask(t)
  /\ enabled => ClientsLeft
  /\ SetClient(EnsureBegin(w, t, enabled, key))

\* connection.onInitialized: the first of the handlers to run
OnInitialized(enabled, key) ==
  HandlerCallsEnsureClangd(Cur, 1, enabled, key)

\* a settings-change event reaches its handler, run by task t
ChangeEvent(w, t) ==
  [w EXCEPT !.changeEvents = @ + 1, !.tasks[t].change = w.changeEvents + 1]

\* connection.onDidChangeConfiguration: under the configuration capability
\* documentSettings.clear() and refreshGlobalSettings(), else globalSettings
\* is computed from the settings the editor pushed; then ensureClangd
OnDidChangeConfiguration(t, enabled, key) ==
  /\ t > 1
  /\ LET w1 == ChangeEvent(Cur, t)
         w2 == [w1 EXCEPT !.globalSettings = w1.changeEvents]
     IN HandlerCallsEnsureClangd(
          IF hasConfigurationCapability THEN [w2 EXCEPT !.documentSettings = 0] ELSE w2,
          t, enabled, key)

\* connection.onDidChangeWatchedFiles: documentSettings.clear(), then
\* refreshGlobalSettings(), which returns at once without the configuration
\* capability, then ensureClangd
OnDidChangeWatchedFiles(t, enabled, key) ==
  /\ t > 1
  /\ LET w1 == [ChangeEvent(Cur, t) EXCEPT !.documentSettings = 0]
     IN HandlerCallsEnsureClangd(
          IF hasConfigurationCapability THEN [w1 EXCEPT !.globalSettings = w1.changeEvents]
                                        ELSE w1,
          t, enabled, key)

\* a handler after `await ensureClangd(...)` and its catch block:
\* onDidChangeConfiguration and onDidChangeWatchedFiles call
\* validateTextDocument(document, 'open') for every open document
HandlerAfterEnsure(w, t) ==
  LET w1 == [w EXCEPT !.tasks[t].done = TRUE]
  IN IF w.tasks[t].change # 0 /\ w.docOpen
       THEN LET w2 == ValidateBegin(w1, w1.docObj, "open")
            IN [w2 EXCEPT !.validations[Len(w2.validations)].change = w.tasks[t].change]
       ELSE w1

ResumeHandler(t) ==
  /\ Turn("handler", t)
  /\ SetClient(HandlerAfterEnsure(Dequeued, t))

ResumeStopClangd(t) ==
  /\ Turn("task", t)
  /\ tasks[t].kind = "ensure"
  /\ tasks[t].pc = "stopReturned"
  /\ SetClient(StopClangdResume(Dequeued, t))

ResumeEnsureAfterStopClangd(t) ==
  /\ Turn("task", t)
  /\ tasks[t].kind = "ensure"
  /\ tasks[t].pc \in {"stopClangdReturned", "stopThrew"}
  /\ SetClient(EnsureAfterStopClangd(Dequeued, t, tasks[t].pc = "stopThrew"))

ResumeEnsureAfterStart(t) ==
  /\ Turn("task", t)
  /\ tasks[t].kind = "ensure"
  /\ tasks[t].pc = "startSettled"
  /\ SetClient(EnsureAfterStart(Dequeued, t))

NextSession ==
  \/ \E s \in ClangdInputs, k \in Keys : OnInitialized(ShouldEnable(s), k)
  \/ \E t \in 1..MaxEnsure, s \in ClangdInputs, k \in Keys :
       OnDidChangeConfiguration(t, ShouldEnable(s), k)
  \/ \E t \in 1..MaxEnsure, s \in ClangdInputs, k \in Keys :
       OnDidChangeWatchedFiles(t, ShouldEnable(s), k)
  \/ \E c \in Clients : \E m \in Emittable(c) : ProcessAnswers(c, m)
  \/ \E c \in Clients, k \in 1..MaxChunk : StdoutData(c, k)
  \/ \E c \in Clients : ProcessExit(c)
  \/ \E c \in Clients : SpawnError(c)
  \/ \E c \in Clients : ResumeInitialize(c)
  \/ \E t \in TaskIds : ResumeAfterReady(t)
  \/ \E t \in TaskIds : ResumeStop(t)
  \/ \E t \in TaskIds : ResumeStopClangd(t)
  \/ \E t \in TaskIds : ResumeEnsureAfterStopClangd(t)
  \/ \E t \in TaskIds : ResumeEnsureAfterStart(t)
  \/ \E t \in TaskIds : ResumeHandler(t)
  \/ PromiseReaction

SpecSession == InitClient /\ [][NextSession]_vars

\* C4: there is never more than one analyzer child process that has been
\* spawned and has neither been killed nor exited.
C4_OneSession ==
  Cardinality({c \in Clients : os[c] = "running"}) <= 1

\* a second process runs, the first one was killed, while two ensureClangd
\* calls are in progress
C4_Witness ==
  /\ os[1] = "killed"
  /\ os[2] = "running"
  /\ \E t, u \in TaskIds :
       /\ t # u
       /\ tasks[t].kind = "ensure" /\ tasks[t].pc \notin {"ensureReturned", "ensureThrew"}
       /\ tasks[u].kind = "ensure" /\ tasks[u].pc \notin {"ensureReturned", "ensureThrew"}

\* the session is as task t's step found it: no child is spawned or killed,
\* and the client, the fingerprint, the analyzer cache and the generation
\* counter are unchanged
SessionUntouched ==
  /\ created' = created
  /\ \A c \in Clients : os'[c] = "killed" => os[c] = "killed"
  /\ UNCHANGED <<clangdClient, clangdConfigKey, clangdDiagnostics, clangdDiagnosticsGeneration>>

\* this step is the call of ensureClangd by task t, or a later step of that
\* call, and the call found a ready session with the fingerprint of its
\* settings
StepOfSameKeyCall(t) ==
  /\ tasks'[t] # tasks[t]
  /\ tasks[t].pc \notin {"ensureReturned", "ensureThrew"}
  /\ tasks'[t].kind = "ensure"
  /\ tasks'[t].same

\* C19 (as stated): when ensureClangd is called while a session exists, is
\* ready, and its fingerprint equals the fingerprint of the new settings,
\* nothing is spawned or killed and the client, the fingerprint, the
\* analyzer cache and the generation counter are left unchanged.
C19_SameKeyNoOp_Original ==
  [][\A t \in TaskIds : StepOfSameKeyCall(t) => SessionUntouched]_vars

\* C19 (amended): the same, for a call whose settings still ask for the
\* analyzer (enabled, proxy mode, compiler unavailable); such a call returns
\* at once.
C19_SameKeyNoOp ==
  [][\A t \in TaskIds :
       (StepOfSameKeyCall(t) /\ tasks'[t].enabled)
         => /\ SessionUntouched
            /\ tasks[t].kind = "none"
            /\ tasks'[t].pc = "ensureReturned"
            /\ UNCHANGED <<os, process, stdin, ready, pending>>]_vars

\* a second call with the fingerprint of the running session has returned
\* without touching the session
C19_Witness ==
  /\ clangdClient = 1
  /\ created = 1
  /\ ready[1]
  /\ os[1] = "running"
  /\ \E t \in TaskIds \ {1} :
       /\ tasks[t].kind = "ensure" /\ tasks[t].pc = "ensureReturned"
       /\ tasks[t].enabled /\ tasks[t].same
       /\ tasks[t].key = clangdConfigKey

\* task t's ensureClangd call has settled: it returned or it threw
Completed(t) == tasks[t].kind = "ensure" /\ tasks[t].pc \in {"ensureReturned", "ensureThrew"}

\* C20: when an ensureClangd call for settings that do not ask for the
\* analyzer (disabled, or not in proxy mode, or the compiler is available)
\* completes, there is no client, no fingerprint and no cached analyzer
\* diagnostics; and a client is constructed only by a call whose settings
\* ask for the analyzer.
C20_SessionOnlyWhenNeeded ==
  [][/\ \A t \in TaskIds :
          (~Completed(t) /\ Completed(t)' /\ ~tasks'[t].enabled)
            => /\ clangdClient' = 0
               /\ clangdConfigKey' = 0
               /\ clangdDiagnostics' = "none"
     /\ created' # created
          => \E t \in TaskIds : /\ tasks'[t].kind = "ensure" /\ tasks'[t].enabled
                                 /\ tasks'[t].c = created' /\ tasks'[t].pc = "awaitStart"]_vars

\* the child of client c is gone (it never ran, or it exited) and everything
\* this set off in the server has run
Settled(c) ==
  /\ os[c] \in {"failed", "exited"}
  /\ Quiescent
  /\ buffered[c] = <<>>

\* task t is an ensureClangd call whose client c failed before the handshake
\* was over
StartFailed(t, c) ==
  /\ tasks[t].kind = "ensure"
  /\ tasks[t].c = c
  /\ tasks[t].phase \in {"restart", "catch"}
  /\ ~initAnswered[c]

\* client c ended stopped, its start() has settled, and the ensureClangd
\* call that started it has thrown and left neither it nor a fingerprint
StoppedAndForgotten(c) ==
  /\ ~process[c]
  /\ ~ready[c]
  /\ readyPromise[c] # "pending"
  /\ \A t \in TaskIds :
       StartFailed(t, c) => /\ tasks[t].pc = "ensureThrew"
                           /\ clangdClient # c
                           /\ (clangdClient = 0 => clangdConfigKey = 0)

\* C22: when the analyzer executable cannot be spawned or the child exits
\* during the handshake, no exception escapes, start() settles, the client
\* ends without process handle and not ready, and the ensureClangd call that
\* started it has thrown, leaving no client and no fingerprint.
C22_AnalyzerFailureContained ==
  /\ uncaught = 0
  /\ \A c \in Clients : Settled(c) => StoppedAndForgotten(c)

\* ------------------------------------------- editor requests (SpecProxy)

\* shouldProxyToClangd without the test of the settings
ShouldProxyWhenReady(w, proxy) == w.clangdClient # 0 /\ w.ready[w.clangdClient]

\* shouldProxyToClangd(settings); proxy: settings.clangd.enabled and
\* settings.clangd.mode === 'proxy'
ShouldProxyToClangd(w, proxy) == proxy /\ w.clangdClient # 0 /\ w.ready[w.clangdClient]

\* a request handler (onCompletion, onHover, onDefinition, onReferences,
\* onDocumentSymbol, onWorkspaceSymbol) once it has its settings: it
\* delegates, or answers by itself
EditorAfterSettings(w, t) ==
  IF ShouldProxyToClangd(w, w.tasks[t].enabled)
    THEN RequestBegin(w, t, w.clangdClient)
    ELSE [w EXCEPT !.tasks[t].pc = "answered", !.tasks[t].answer = "local"]

\* the task slot of the request handler comes after those of the handlers
\* that call ensureClangd
EditorTasks == {MaxEnsure + 1}

\* The editor sends a request.  Its handler awaits the settings of the
\* document (awaits), or reads globalSettings (onWorkspaceSymbol).
EditorRequest(t, enabled, mode, awaits) ==
  /\ Quiescent
  /\ tasks[t].kind = "none"
  /\ LET w == [Cur EXCEPT !.tasks[t].kind = "request",
                          !.tasks[t].pc = "awaitSettings",
                          !.tasks[t].enabled = enabled /\ mode = "proxy",
                          !.tasks[t].answer = "pending"]
     IN SetClient(IF awaits THEN Enqueue(w, "editor", t, 0) ELSE EditorAfterSettings(w, t))

ResumeEditorRequest(t) ==
  /\ Turn("editor", t)
  /\ SetClient(EditorAfterSettings(Dequeued, t))

\* the session of the server under onInitialized and pushed configuration
\* changes, and a request of the editor
NextProxy ==
  \/ \E s \in ClangdInputs, k \in Keys : OnInitialized(ShouldEnable(s), k)
  \/ \E t \in 1..MaxEnsure, s \in ClangdInputs, k \in Keys :
       OnDidChangeConfiguration(t, ShouldEnable(s), k)
  \/ \E c \in Clients : \E m \in Emittable(c) : ProcessAnswers(c, m)
  \/ \E c \in Clients, k \in 1..MaxChunk : StdoutData(c, k)
  \/ \E c \in Clients : ProcessExit(c)
  \/ \E c \in Clients : SpawnError(c)
  \/ \E c \in Clients : ResumeInitialize(c)
  \/ \E t \in TaskIds : ResumeAfterReady(t)
  \/ \E t \in TaskIds : ResumeStop(t)
  \/ \E t \in TaskIds : ResumeStopClangd(t)
  \/ \E t \in TaskIds : ResumeEnsureAfterStopClangd(t)
  \/ \E t \in TaskIds : ResumeEnsureAfterStart(t)
  \/ \E t \in TaskIds : ResumeHandler(t)
  \/ PromiseReaction
  \/ \E t \in EditorTasks, enabled \in BOOLEAN, mode \in {"proxy", "augment"}, awaits \in BOOLEAN :
       EditorRequest(t, enabled, mode, awaits)
  \/ \E t \in TaskIds : ResumeEditorRequest(t)
  \/ \E t \in TaskIds : ResumeRequest(t)

SpecProxy == InitClient /\ [][NextProxy]_vars

\* the handler run by task t decides in this step whether it delegates
Decides(t) ==
  /\ tasks'[t].answer # "none"
  /\ \/ tasks[t].pc = "awaitSettings" /\ tasks'[t].pc # "awaitSettings"
     \/ tasks[t].kind = "none" /\ tasks'[t].pc # "awaitSettings"

\* an editor request is written to the analyzer in this step
Delegates(c) ==
  /\ Len(stdin'[c]) > Len(stdin[c])
  /\ stdin'[c][Len(stdin'[c])].method = "textDocument/completion"

\* -- C28: a request of the editor is written to the analyzer only when the
\* settings of its handler enable the analyzer in proxy mode and the session
\* is ready; a handler that finds the analyzer not eligible answers with its
\* own answer at once; and a handler whose delegated request is rejected
\* answers with its own answer.
C28_ProxyOrLocal ==
  [][/\ \A c \in Clients :
          Delegates(c) =>
            /\ clangdClient = c /\ ready[c]
            /\ \E t \in TaskIds : /\ tasks[t].answer = "pending" /\ tasks[t].enabled
                                   /\ tasks'[t].pc = "awaitResp"
     /\ \A t \in TaskIds :
          /\ Decides(t) =>
               IF tasks'[t].enabled /\ clangdClient # 0 /\ ready[clangdClient]
                 THEN tasks'[t].pc # "answered" /\ tasks'[t].answer = "pending"
                 ELSE tasks'[t].pc = "answered" /\ tasks'[t].answer = "local"
          /\ (tasks[t].answer = "pending" /\ tasks[t].pc = "settled" /\ tasks'[t].pc # "settled") =>
               tasks'[t].answer = IF tasks[t].res = "err" THEN "local" ELSE "analyzer"]_vars

\* a handler has answered by itself after the analyzer, which had read its
\* request, rejected it
C28_Witness ==
  \E t \in TaskIds : /\ tasks[t].pc = "rejected" /\ tasks[t].answer = "local"
                      /\ tasks[t].id # 0

\* -- C38: every request is settled in the end.  The promise of a request is
\* settled through its entry of the pending table only (by the response, or
\* by the exit handler, which rejects every entry), so a request that waits
\* for its response has its entry in the table of its client, whatever
\* happened since it was sent: responses, the exit of the child, a stop() of
\* the client by a reconfiguration.
C38_RequestsSettle ==
  \A t \in TaskIds :
    tasks[t].pc = "awaitResp" => tasks[t].id \in DOMAIN pending[tasks[t].c]

\* ------------------------------------------------ server: document events

\* forwardDidOpen and its siblings
Forward(w, method) ==
  IF w.clangdClient = 0 THEN w ELSE Notify(w, w.clangdClient, method)

\* documents.onDidOpen: the editor opens the document, as a new TextDocument
\* object at version 1
DidOpen ==
  /\ Quiescent
  /\ ~docOpen
  /\ events < MaxEvents
  /\ LET obj == docObj + 1
         w1 == [Cur EXCEPT !.docOpen = TRUE, !.docObj = obj, !.objVersion[obj] = 1,
                           !.events = @ + 1]
     IN SetClient(ValidateBegin(Forward(w1, "textDocument/didOpen"), obj, "open"))

\* documents.onDidChangeContent: the editor has changed the text; the
\* TextDocument object is updated in place
DidChangeContent ==
  /\ Quiescent
  /\ docOpen
  /\ events < MaxEvents
  /\ LET w1 == [Cur EXCEPT !.objVersion[docObj] = @ + 1, !.events = @ + 1]
     IN SetClient(ValidateBegin(Forward(w1, "textDocument/didChange"), docObj, "change"))

\* documents.onDidSave
DidSave ==
  /\ Quiescent
  /\ docOpen
  /\ events < MaxEvents
  /\ LET w1 == [Cur EXCEPT !.events = @ + 1]
     IN SetClient(ValidateBegin(Forward(w1, "textDocument/didSave"), docObj, "save"))

\* documents.onDidClose
DidClose ==
  /\ Quiescent
  /\ docOpen
  /\ LET w1 == [Cur EXCEPT !.docOpen = FALSE,
                           !.documentSettings = 0,
                           !.localDiagnostics = "none",
                           !.localDiagnosticsVersion = 0,
                           !.clangdDiagnostics = "none",
                           !.clangdDiagnosticsGeneration = 0,
                           !.published = <<>>,
                           !.sendFlip = ~@]
     IN SetClient(Forward(w1, "textDocument/didClose"))

RECURSIVE WakeSettingsWaiters(_, _)
WakeSettingsWaiters(w, ws) ==
  IF ws = <<>> THEN w
  ELSE WakeSettingsWaiters(Enqueue(w, Head(ws).kind, Head(ws).n, 1), Tail(ws))

\* the editor answers the workspace/configuration request of lookup l; the
\* .then of getDocumentSettings runs before its awaiters
ConfigurationAnswered(l) ==
  /\ Quiescent
  /\ l \in DOMAIN lookups
  /\ lookups[l].state = "pending"
  /\ SetClient(WakeSettingsWaiters([Cur EXCEPT !.lookups[l] = [state |-> "resolved",
                                                               asOf |-> changeEvents,
                                                               waiters |-> <<>>]],
                                   lookups[l].waiters))

\* the compiler process of validation i exits
CompilerExits(i, ok) ==
  /\ Quiescent
  /\ i \in DOMAIN validations
  /\ validations[i].pc = "awaitQcc"
  /\ SetClient(CollectAfterQcc(Cur, i, ok))

\* the analyzer writes a publishDiagnostics frame for the document
AnalyzerPublishes(c, payload) ==
  /\ Quiescent
  /\ os[c] = "running"
  /\ events < MaxEvents
  /\ SetClient([Cur EXCEPT !.buffered[c] = Append(@, NotificationMsg("textDocument/publishDiagnostics", payload)),
                           !.emitted[c] = @ + 1,
                           !.events = @ + 1])

ResumeValidateAfterSettings(i) ==
  /\ Turn("validate", i)
  /\ validations[i].pc = "awaitSettings"
  /\ SetClient(ValidateAfterSettings(Dequeued, i))

ResumeValidateAfterCollect(i) ==
  /\ Turn("validate", i)
  /\ validations[i].pc = "collected"
  /\ SetClient(ValidateAfterCollect(Dequeued, i))

ResumeOnDiagnostics(k) ==
  /\ Turn("diag", k)
  /\ SetClient(OnDiagnosticsAfterSettings(Dequeued, k))

\* The analyzer session is up: onInitialized has started client 1 and its
\* handshake is over.
SessionEstablished ==
  /\ process = [c \in Clients |-> c = 1]
  /\ os = [c \in Clients |-> IF c = 1 THEN "running" ELSE "none"]
  /\ buffered = [c \in Clients |-> <<>>]
  /\ nextId = [c \in Clients |-> IF c = 1 THEN 2 ELSE 1]
  /\ pending = [c \in Clients |-> << >>]
  /\ ready = [c \in Clients |-> c = 1]
  /\ readyPromise = [c \in Clients |-> IF c = 1 THEN "resolved" ELSE "null"]
  /\ initResume = [c \in Clients |-> "none"]
  /\ queuedNotifications = [c \in Clients |-> <<>>]
  /\ stdin = [c \in Clients |-> IF c = 1 THEN <<RequestMsg(1, "initialize"),
                                                 NotificationMsg("initialized", 1)>>
                                          ELSE <<>>]
  /\ notifyCalls = [c \in Clients |-> IF c = 1 THEN 1 ELSE 0]
  /\ initAnswered = [c \in Clients |-> c = 1]
  /\ emitted = [c \in Clients |-> IF c = 1 THEN 1 ELSE 0]
  /\ answered = [c \in Clients |-> IF c = 1 THEN {1} ELSE {}]
  /\ cbCount = [c \in Clients |-> 0]
  /\ settleCount = [c \in Clients |-> [i \in 1..MaxId |-> IF c = 1 /\ i = 1 THEN 1 ELSE 0]]
  /\ tasks = [t \in TaskIds |->
                IF t = 1 THEN [NoTask EXCEPT !.kind = "ensure", !.pc = "ensureReturned", !.c = 1,
                                             !.res = "ok", !.enabled = TRUE, !.key = 1,
                                             !.phase = "restart"]
                         ELSE NoTask]
  /\ microtasks = <<>>
  /\ readyWaiters = [c \in Clients |-> <<>>]
  /\ clangdClient = 1
  /\ clangdConfigKey = 1
  /\ created = 1
  /\ clangdDiagnostics = "none"
  /\ clangdDiagnosticsGeneration = 0
  /\ onDiagnosticsCallback = [c \in Clients |-> IF c = 1 THEN "server" ELSE "null"]

\* The settings the editor holds for the document, and whether it answers
\* configuration requests, are those of the whole run.
InitDoc ==
  /\ NoCall
  /\ SessionEstablished
  /\ InitStdout
  /\ NoWire
  /\ hasConfigurationCapability \in BOOLEAN
  /\ settings \in [diagnosticsOnType : BOOLEAN, diagnosticsOnSave : BOOLEAN,
                   enableDiagnostics : BOOLEAN, diagnosticsMode : {"none", "filtered"},
                   maxNumberOfProblems : {maxNumberOfProblems}]
  /\ localDiagnostics = "none"
  /\ InitDocument
  /\ KeywordText

PublishPayloads == {0, 1}

NextDoc ==
  \/ DidOpen
  \/ DidChangeContent
  \/ DidSave
  \/ DidClose
  \/ \E l \in 1..MaxEvents : ConfigurationAnswered(l)
  \/ \E i \in 1..MaxEvents, ok \in BOOLEAN : CompilerExits(i, ok)
  \/ \E payload \in PublishPayloads : AnalyzerPublishes(TheClient, payload)
  \/ \E k \in 1..MaxChunk : StdoutData(TheClient, k)
  \/ \E i \in 1..MaxEvents : ResumeValidateAfterSettings(i)
  \/ \E i \in 1..MaxEvents : ResumeValidateAfterCollect(i)
  \/ \E k \in 1..MaxEvents : ResumeOnDiagnostics(k)
  \/ PromiseReaction

SpecDoc == InitDoc /\ [][NextDoc]_vars

\* the document events and their validations, the analyzer silent
NextGate ==
  \/ DidOpen
  \/ DidChangeContent
  \/ DidSave
  \/ DidClose
  \/ \E l \in 1..MaxEvents : ConfigurationAnswered(l)
  \/ \E i \in 1..MaxEvents, ok \in BOOLEAN : CompilerExits(i, ok)
  \/ \E i \in 1..MaxEvents : ResumeValidateAfterSettings(i)
  \/ \E i \in 1..MaxEvents : ResumeValidateAfterCollect(i)
  \/ PromiseReaction

SpecGate == InitDoc /\ [][NextGate]_vars

\* ------------------------- documents and analyzer sessions (SpecForward)

\* the document events of the editor, MaxForward of them
EditorOpens == events < MaxForward /\ DidOpen

EditorChanges == events < MaxForward /\ DidChangeContent

EditorSaves == events < MaxForward /\ DidSave

\* the server from its construction on: the analyzer session under
\* onInitialized and configuration changes, with a child that answers, and
\* the editor opening, changing, saving and closing the document at any time
NextForward ==
  \/ \E enabled \in BOOLEAN, k \in Keys : OnInitialized(enabled, k)
  \/ \E t \in 1..MaxEnsure, enabled \in BOOLEAN, k \in Keys :
       OnDidChangeConfiguration(t, enabled, k)
  \/ \E c \in Clients : \E m \in Emittable(c) : ProcessAnswers(c, m)
  \/ \E c \in Clients, k \in 1..MaxChunk : StdoutData(c, k)
  \/ \E c \in Clients : ResumeInitialize(c)
  \/ \E t \in TaskIds : ResumeAfterReady(t)
  \/ \E t \in TaskIds : ResumeStop(t)
  \/ \E t \in TaskIds : ResumeStopClangd(t)
  \/ \E t \in TaskIds : ResumeEnsureAfterStopClangd(t)
  \/ \E t \in TaskIds : ResumeEnsureAfterStart(t)
  \/ \E t \in TaskIds : ResumeHandler(t)
  \/ PromiseReaction
  \/ EditorOpens
  \/ EditorChanges
  \/ EditorSaves
  \/ DidClose
  \/ \E i \in 1..MaxEvents, ok \in BOOLEAN : CompilerExits(i, ok)
  \/ \E i \in 1..MaxEvents : ResumeValidateAfterSettings(i)
  \/ \E i \in 1..MaxEvents : ResumeValidateAfterCollect(i)

SpecForward == InitClient /\ [][NextForward]_vars

\* the notifications about the open document
DocumentUpdates == {"textDocument/didChange", "textDocument/didSave", "textDocument/didClose"}

\* -- C39: within one analyzer session (the child of one client), a
\* didChange, didSave or didClose for the document is written to the analyzer
\* only after a didOpen was written to it in that session; this covers a
\* document opened before the session was created and a document that stays
\* open across a restart of the session.
C39_OpenedBeforeUpdated ==
  \A c \in Clients : \A i \in DOMAIN stdin[c] :
    stdin[c][i].method \in DocumentUpdates =>
      \E j \in 1..(i - 1) : stdin[c][j].method = "textDocument/didOpen"

\* ------------------------------------ the diagnostics mode (SpecFilter)

\* texts of up to MaxLines lines
Texts == UNION {[1..n -> BOOLEAN] : n \in 0..MaxLines}

\* the session is up, the document has some text and the settings some mode
InitFilter ==
  /\ SessionEstablished
  /\ InitStdout
  /\ NoWire
  /\ NoCapability
  /\ settings \in {[DefaultSettings EXCEPT !.diagnosticsMode = mode, !.diagnosticsOnType = onType] :
                     mode \in {"none", "filtered", "all"}, onType \in BOOLEAN}
  /\ localDiagnostics = "none"
  /\ InitDocument
  /\ docText \in Texts
  /\ NoCall

\* the document is opened and the analyzer reports on it
NextFilter ==
  \/ DidOpen
  \/ \E payload \in 0..(MaxLines + 3) :
       events < MaxReports /\ AnalyzerPublishes(TheClient, payload)
  \/ \E k \in 1..MaxChunk : StdoutData(TheClient, k)
  \/ \E i \in 1..MaxEvents : ResumeValidateAfterSettings(i)
  \/ \E i \in 1..MaxEvents : ResumeValidateAfterCollect(i)
  \/ \E k \in 1..MaxEvents : ResumeOnDiagnostics(k)

SpecFilter == InitFilter /\ [][NextFilter]_vars

\* ------------------------------- settings changes (SpecConfig, SpecConfigFair)

\* the server before `initialized`, with or without the configuration
\* capability
InitConfig ==
  /\ NoCall
  /\ InitClientFields
  /\ hasConfigurationCapability \in BOOLEAN
  /\ NoCaches
  /\ NoWire

\* the handlers of the session, one document that is opened, and the
\* validations the handlers start
NextConfig ==
  \/ NextSession
  \/ DidOpen
  \/ \E l \in 1..MaxEvents : ConfigurationAnswered(l)
  \/ \E i \in 1..MaxEvents : ResumeValidateAfterSettings(i)
  \/ \E i \in 1..MaxEvents : ResumeValidateAfterCollect(i)

SpecConfig == InitConfig /\ [][NextConfig]_vars

\* what the event loop, the editor and a child that runs do sooner or later:
\* queued continuations run, requests are answered, chunks arrive, a killed
\* child exits
Progress ==
  \/ \E c \in Clients : \E m \in Emittable(c) : ProcessAnswers(c, m)
  \/ \E c \in Clients, k \in 1..MaxChunk : StdoutData(c, k)
  \/ \E c \in Clients : os[c] = "killed" /\ ProcessExit(c)
  \/ \E l \in 1..MaxEvents : ConfigurationAnswered(l)
  \/ microtasks # <<>> /\ NextConfig

SpecConfigFair == SpecConfig /\ WF_vars(Progress)

\* ------------------------------------------------ runDiagnostics (SpecQcc)

\* directories and file names, as texts
TempDir == <<"/", "t">>

Directories == {TempDir, <<"/", "a", " ", "b">>, <<"/", "d">>}

\* null, or the empty string
NoDirectory == <<>>

TempBase == <<"b", ".", "c">>

ResolvedQccPath == <<"q", "c", "c">>

\* settings.qcc.includePaths
IncludePathLists == UNION {[1..n -> Directories \cup {NoDirectory}] : n \in 0..MaxInclude}

\* the directories runDiagnostics collects before it removes the repetitions
IncludeDirs(originalDir, srcLocalDir, includePaths, tempDir) ==
  (IF originalDir # NoDirectory /\ originalDir # tempDir THEN <<originalDir>> ELSE <<>>)
    \o (IF srcLocalDir # NoDirectory /\ srcLocalDir # tempDir /\ srcLocalDir # originalDir
          THEN <<srcLocalDir>> ELSE <<>>)
    \o includePaths

\* the loop over includeDirs: args.push('-I', includeDir) for each directory
\* that is not empty and was not seen
RECURSIVE PushIncludes(_, _, _)
PushIncludes(args, includeDirs, seen) ==
  IF includeDirs = <<>>
    THEN args
    ELSE LET includeDir == Head(includeDirs)
         IN IF includeDir = NoDirectory \/ includeDir \in seen
              THEN PushIncludes(args, Tail(includeDirs), seen)
              ELSE PushIncludes(args \o <<<<"-", "I">>, includeDir>>, Tail(includeDirs),
                                seen \cup {includeDir})

\* the argument vector of the compiler
QccArgs(includeDirs, tempBase) ==
  Append(PushIncludes(<<<<"-Wall">>, <<"-fsyntax-only">>>>, includeDirs, {}), tempBase)

\* err.message.includes(word)
MessageIncludes(error, word) == \E k \in DOMAIN error.message : error.message[k] = word

\* the errors of fs.writeFileSync, of spawn and of the timer of runCommand
WriteError(code) ==
  SystemError("write", code,
              IF code = "ENOENT" THEN <<"ENOENT", ": no such file or directory, open">>
                                 ELSE <<code, ": no space left on device, write">>)

SpawnFailure(code) == SystemError("spawn", code, <<"spawn", "qcc", code>>)

TimedOut == SystemError("timeout", "", <<"Command timed out after", "30000", "ms">>)

\* the diagnostic of the catch block
CompilerNotFound ==
  TextDiagnostic(<<0, 0, 0, 1>>, 2,
                 <<"qcc compiler not found at '">> \o ResolvedQccPath
                   \o <<"'. Set basilisk.qccPath in settings.">>,
                 <<"basilisk-lsp">>)

\* the catch block of runDiagnostics
RunDiagnosticsCatch(w, error) ==
  IF MessageIncludes(error, "ENOENT") \/ MessageIncludes(error, "not found")
    THEN [w EXCEPT !.runDiag.error = error,
                   !.runDiag.diagnostics = Append(@, CompilerNotFound)]
    ELSE [w EXCEPT !.runDiag.error = error, !.runDiag.logged = @ + 1]

\* a finally block that leaves the file where it is
RunDiagnosticsFinallyKeeps(w, unlinkOk) == [w EXCEPT !.runDiag.pc = "returned"]

\* the finally block of runDiagnostics and its return; unlinkSync removes
\* the file or throws, and what it throws is ignored
RunDiagnosticsFinally(w, unlinkOk) ==
  LET w1 == IF w.tempFile = "exists"
              THEN IF unlinkOk THEN [w EXCEPT !.tempFile = "absent"]
                               ELSE [w EXCEPT !.runDiag.unlinkFailed = TRUE]
              ELSE w
  IN [w1 EXCEPT !.runDiag.pc = "returned"]

\* mutant: a promise that every call of resolve or reject settles anew
SettleCommandAgain(w, outcome, output, error) ==
  Enqueue([w EXCEPT !.runDiag.settleCalls = @ + 1, !.runDiag.settled = outcome,
                    !.runDiag.output = output, !.runDiag.error = error],
          "runDiagnostics", 0, 0)

\* resolve(...) or reject(...) of the promise of runCommand: the first call
\* settles it and queues the continuation of runDiagnostics, a later call
\* does nothing
SettleCommand(w, outcome, output, error) ==
  IF w.runDiag.settled # "none"
    THEN [w EXCEPT !.runDiag.settleCalls = @ + 1]
    ELSE Enqueue([w EXCEPT !.runDiag.settleCalls = @ + 1, !.runDiag.settled = outcome,
                           !.runDiag.output = output, !.runDiag.error = error],
                 "runDiagnostics", 0, 0)

\* runDiagnostics() up to `await runCommand`; enabled is
\* settings.enableDiagnostics.  writeFileSync writes the file
\* (ok), fails without creating it (ENOENT) or after creating it (ENOSPC);
\* spawn returns a child (spawned) or throws.
RunDiagnosticsCall(enabled, originalDir, srcLocalDir, includePaths, write, spawned, unlinkOk) ==
  /\ Quiescent
  /\ runDiag.pc = "idle"
  /\ LET w == Cur
         includeDirs == IncludeDirs(originalDir, srcLocalDir, includePaths, TempDir)
         w1 == [w EXCEPT !.tempFile = IF write = "ENOENT" THEN "absent" ELSE "exists"]
         w2 == [w1 EXCEPT !.runDiag.includeDirs = includeDirs,
                          !.runDiag.args = QccArgs(includeDirs, TempBase),
                          !.runDiag.pc = "awaitCommand"]
     IN SetClient(
          IF ~enabled
            THEN [w EXCEPT !.runDiag.pc = "returned"]
          ELSE IF write # "ok"
            THEN RunDiagnosticsFinally(RunDiagnosticsCatch(w1, WriteError(write)), unlinkOk)
          ELSE IF ~spawned
            THEN SettleCommand(w2, "rejected", <<>>, SpawnFailure("EINVAL"))
          ELSE [w2 EXCEPT !.runDiag.child = "running", !.runDiag.timer = "armed"])

\* clearTimeout(timer)
ClearTimeout(w) == [w EXCEPT !.runDiag.timer = IF @ = "armed" THEN "cleared" ELSE @]

\* 'close': the streams of the child are closed, after its exit, after the
\* kill, or after a failed spawn: the timer is cleared, resolve called
CommandClose(reports) ==
  /\ Quiescent
  /\ runDiag.child \in {"running", "killed", "failed"}
  /\ SetClient(SettleCommand(ClearTimeout([Cur EXCEPT !.runDiag.child = "closed"]),
                             "resolved", RunDiagnostics(0, 0, reports), NoError))

\* 'error': the child could not be started, or could not be killed: the
\* timer is cleared, reject called
CommandError(code) ==
  /\ Quiescent
  /\ runDiag.child \in {"running", "killed"}
  /\ SetClient(SettleCommand(ClearTimeout([Cur EXCEPT !.runDiag.child = "failed"]),
                             "rejected", <<>>, SpawnFailure(code)))

\* the timer of runCommand fires: process.kill(), then reject
CommandTimeout ==
  /\ Quiescent
  /\ runDiag.timer = "armed"
  /\ SetClient(SettleCommand([Cur EXCEPT !.runDiag.timer = "fired",
                                         !.runDiag.child = IF @ = "running" THEN "killed" ELSE @],
                             "rejected", <<>>, TimedOut))

\* runDiagnostics() after `await runCommand`: the diagnostics of the output,
\* or the catch block; then the finally block
ResumeRunDiagnostics(unlinkOk) ==
  /\ Turn("runDiagnostics", 0)
  /\ LET w == [Dequeued EXCEPT !.runDiag.returns = @ + 1]
     IN SetClient(RunDiagnosticsFinally(
          IF w.runDiag.settled = "resolved"
            THEN [w EXCEPT !.runDiag.diagnostics = w.runDiag.output]
            ELSE RunDiagnosticsCatch(w, w.runDiag.error),
          unlinkOk))

InitQcc == InitClient

NextQcc ==
  \/ \E enableDiagnostics \in BOOLEAN, originalDir \in Directories,
        srcLocalDir \in Directories \cup {NoDirectory}, includePaths \in IncludePathLists,
        write \in {"ok", "ENOENT", "ENOSPC"}, spawned \in BOOLEAN, unlinkOk \in BOOLEAN :
       RunDiagnosticsCall(enableDiagnostics, originalDir, srcLocalDir, includePaths, write,
                          spawned, unlinkOk)
  \/ \E reports \in BOOLEAN : CommandClose(reports)
  \/ \E code \in {"ENOENT", "EACCES"} : CommandError(code)
  \/ CommandTimeout
  \/ \E unlinkOk \in BOOLEAN : ResumeRunDiagnostics(unlinkOk)

SpecQcc == InitQcc /\ [][NextQcc]_vars

\* -- C23: in the argument vector of the compiler every distinct non-empty
\* include directory d is passed as exactly one token "-I" followed by d in
\* the same token, and no token is a bare "-I".
C23_IncludeFlagShape ==
  runDiag.pc # "idle" /\ runDiag.args # <<>> =>
    /\ \A k \in DOMAIN runDiag.includeDirs :
         LET d == runDiag.includeDirs[k]
         IN d # NoDirectory =>
              Cardinality({j \in DOMAIN runDiag.args : runDiag.args[j] = <<"-", "I">> \o d}) = 1
    /\ \A j \in DOMAIN runDiag.args : runDiag.args[j] # <<"-", "I">>

CannotFindCompiler == runDiag.error.kind = "spawn" /\ runDiag.error.code = "ENOENT"

\* -- C25: when runDiagnostics has returned after a failure, its result is
\* the single warning at 0:0-0:1 that names the compiler path if the
\* compiler could not be found, and the empty list after any other failure
\* (a timeout, a spawn error of another kind, an I/O error).
C25_FailureResults ==
  runDiag.pc = "returned" /\ runDiag.error.kind # "none" =>
    runDiag.diagnostics = IF CannotFindCompiler THEN <<CompilerNotFound>> ELSE <<>>

\* -- C37: a compiler run ends and settles once.  While runDiagnostics waits
\* for an unsettled command the timer of the command is armed; once the timer
\* has fired the child has been killed and the command is rejected with the
\* timeout error; a call of resolve or reject on the settled promise changes
\* neither the outcome nor the result (a close or an error after the timeout,
\* and no timeout fires after a close or an error, which clear the timer);
\* runDiagnostics returns once, and after a timeout it returns the empty list.
C37_RunSettlesOnce ==
  /\ [](runDiag.pc = "awaitCommand" /\ runDiag.settled = "none" => runDiag.timer = "armed")
  /\ [](runDiag.timer = "fired" =>
          /\ runDiag.child # "running"
          /\ runDiag.settled = "rejected"
          /\ runDiag.error = TimedOut)
  /\ [](runDiag.child \in {"closed", "failed"} => runDiag.timer # "armed")
  /\ [](runDiag.returns <= 1)
  /\ [](runDiag.pc = "returned" /\ runDiag.error = TimedOut => runDiag.diagnostics = <<>>)
  /\ [][runDiag.settled # "none" =>
          /\ runDiag'.settled = runDiag.settled
          /\ runDiag'.output = runDiag.output
          /\ runDiag'.error = runDiag.error]_vars
  /\ [][runDiag.pc = "returned" =>
          /\ runDiag'.pc = "returned"
          /\ runDiag'.diagnostics = runDiag.diagnostics]_vars

\* the timer fired, the close event of the killed child arrived afterwards,
\* and runDiagnostics has returned
C37_Witness ==
  /\ runDiag.timer = "fired"
  /\ runDiag.child = "closed"
  /\ runDiag.settleCalls = 2
  /\ runDiag.pc = "returned"
  /\ runDiag.returns = 1

\* ---------------------------------- the merge functions (SpecCompletion)

\* A completion item: its label, what else it says, and the tag of
\* tagCompletionItems (none: not tagged).
CompletionItem(label, detail) == [label |-> label, detail |-> detail, source |-> "none"]

ClangdItems == {CompletionItem(label, detail) : label \in {"a", "b"}, detail \in {"c1", "c2"}}

BasiliskItems == {CompletionItem(label, "b1") : label \in {"a", "b"}}

\* the lists of up to n elements of a set
ListsOf(set, n) == UNION {[1..m -> set] : m \in 0..n}

\* what the analyzer may answer: null, an array, a CompletionList
ClangdResults ==
  {[form |-> "null", isIncomplete |-> FALSE, items |-> <<>>]}
    \cup {[form |-> "array", isIncomplete |-> FALSE, items |-> items] :
            items \in ListsOf(ClangdItems, MaxItems)}
    \cup {[form |-> "list", isIncomplete |-> isIncomplete, items |-> items] :
            isIncomplete \in BOOLEAN, items \in ListsOf(ClangdItems, MaxItems)}

\* normalizeCompletionResult(result)
NormalizeCompletionResult(result) ==
  IF result.form = "null" THEN [isIncomplete |-> FALSE, items |-> <<>>]
  ELSE IF result.form = "array" THEN [isIncomplete |-> FALSE, items |-> result.items]
  ELSE [isIncomplete |-> result.isIncomplete, items |-> result.items]

\* tagCompletionItems(items, source)
TagCompletionItems(items, source) == [k \in DOMAIN items |-> [items[k] EXCEPT !.source = source]]

\* forEach(pushItem): an item is pushed unless its label was seen
RECURSIVE PushItems(_, _, _)
PushItems(merged, items, seen) ==
  IF items = <<>>
    THEN merged
    ELSE LET item == Head(items)
         IN IF item.label \in seen
              THEN PushItems(merged, Tail(items), seen)
              ELSE PushItems(Append(merged, item), Tail(items), seen \cup {item.label})

\* a merge that lets the later item replace the earlier one of its label
MergeLastWins(clangdResult, basiliskItems) ==
  LET clangdList == NormalizeCompletionResult(clangdResult)
      all == TagCompletionItems(clangdList.items, "clangd")
               \o TagCompletionItems(basiliskItems, "basilisk")
      last == SelectSeq([k \in DOMAIN all |-> [item |-> all[k], k |-> k]],
                        LAMBDA e : \A j \in DOMAIN all : j > e.k => all[j].label # e.item.label)
  IN [isIncomplete |-> clangdList.isIncomplete, items |-> [n \in DOMAIN last |-> last[n].item]]

\* mergeCompletionResults(clangdResult, basiliskItems)
MergeCompletionResults(clangdResult, basiliskItems) ==
  LET clangdList == NormalizeCompletionResult(clangdResult)
      taggedClangd == TagCompletionItems(clangdList.items, "clangd")
      taggedBasilisk == TagCompletionItems(basiliskItems, "basilisk")
  IN [isIncomplete |-> clangdList.isIncomplete,
      items |-> PushItems(<<>>, taggedClangd \o taggedBasilisk, {})]

\* onCompletion is about to merge what the analyzer returned with its own items
InitCompletion ==
  /\ InitClientFields
  /\ NoCapability
  /\ NoCaches
  /\ NoWire
  /\ call \in [fn : {"mergeCompletionResults"}, clangdResult : ClangdResults,
               basiliskItems : ListsOf(BasiliskItems, MaxItems), returned : BOOLEAN,
               result : {[isIncomplete |-> FALSE, items |-> <<>>]}]
  /\ ~call.returned

CallMergeCompletionResults ==
  /\ call.fn = "mergeCompletionResults"
  /\ ~call.returned
  /\ SetClient([Cur EXCEPT !.call.returned = TRUE,
                           !.call.result = MergeCompletionResults(call.clangdResult,
                                                                  call.basiliskItems)])

NextCompletion == CallMergeCompletionResults

SpecCompletion == InitCompletion /\ [][NextCompletion]_vars

\* the analyzer items followed by the local items, each with where it is from
Concatenation ==
  [k \in 1..(Len(call.clangdResult.items) + Len(call.basiliskItems)) |->
     IF k <= Len(call.clangdResult.items)
       THEN [call.clangdResult.items[k] EXCEPT !.source = "clangd"]
       ELSE [call.basiliskItems[k - Len(call.clangdResult.items)] EXCEPT !.source = "basilisk"]]

\* the positions of a list whose label did not occur before them
FirstOfLabel(list) ==
  {k \in DOMAIN list : \A j \in 1..(k - 1) : list[j].label # list[k].label}

\* -- C29: the merged completion list is the analyzer items in their order
\* followed by the local items in their order without every item whose label
\* occurred earlier in that concatenation: its labels are pairwise distinct,
\* every label of either input occurs in it exactly once, and an item of a
\* label both sides have is the analyzer's.
C29_CompletionMerge ==
  (call.fn = "mergeCompletionResults" /\ call.returned) =>
    LET all == Concatenation
        items == call.result.items
        kept == FirstOfLabel(all)
    IN /\ Len(items) = Cardinality(kept)
       /\ \A n \in DOMAIN items :
            \E k \in kept : /\ items[n] = all[k]
                            /\ Cardinality({j \in kept : j < k}) = n - 1
       /\ \A m, n \in DOMAIN items : m # n => items[m].label # items[n].label
       /\ \A k \in DOMAIN all :
            Cardinality({n \in DOMAIN items : items[n].label = all[k].label}) = 1
       /\ \A n \in DOMAIN items :
            (\E k \in DOMAIN all : all[k].label = items[n].label /\ all[k].source = "clangd")
              => items[n].source = "clangd"

\* both sides have an item of label a, the analyzer has two, and the merge
\* has returned
C29_Witness ==
  /\ call.fn = "mergeCompletionResults"
  /\ call.returned
  /\ Len(call.clangdResult.items) = 2
  /\ \A k \in 1..2 : call.clangdResult.items[k].label = "a"
  /\ call.clangdResult.items[1] # call.clangdResult.items[2]
  /\ \E k \in DOMAIN call.basiliskItems : call.basiliskItems[k].label = "a"
  /\ \E k \in DOMAIN call.basiliskItems : call.basiliskItems[k].label = "b"

\* ------------------------------------ the merge functions (SpecSettings)

\* A layer of settings is a function from the keys it has to their values.
\* { ...base, ...partial }
Spread(base, partial) ==
  [k \in DOMAIN base \cup DOMAIN partial |-> IF k \in DOMAIN partial THEN partial[k] ELSE base[k]]

\* a layer with the key k, or without it
Option(has, k, v) == [x \in (IF has THEN {k} ELSE {}) |-> v]

\* include paths; the empty text is an entry a configuration may hold
PathLists == ListsOf({"", "/p", "/q"}, MaxPaths)

\* a complete settings value
BaseSettings ==
  {Option(TRUE, "qccPath", "qcc") @@ Option(TRUE, "qcc", Option(TRUE, "includePaths", l))
     @@ Option(TRUE, "clangd", Option(TRUE, "enabled", TRUE) @@ Option(TRUE, "mode", "proxy")) :
     l \in PathLists}

\* what a more specific layer (project file, editor, command line) may hold
PartialSettings ==
  {Option(hasPath, "qccPath", "/opt/qcc") @@ Option(hasQcc, "qcc", Option(hasPaths, "includePaths", l))
     @@ Option(hasClangd, "clangd",
               Option(hasEnabled, "enabled", FALSE) @@ Option(hasMode, "mode", "augment")) :
     hasPath \in BOOLEAN, hasQcc \in BOOLEAN, hasPaths \in BOOLEAN, l \in PathLists,
     hasClangd \in BOOLEAN, hasEnabled \in BOOLEAN, hasMode \in BOOLEAN}

\* the loop of mergeStringArrays
RECURSIVE PushEntries(_, _, _)
PushEntries(merged, entries, seen) ==
  IF entries = <<>>
    THEN merged
    ELSE LET entry == Head(entries)
         IN IF entry = "" \/ entry \in seen
              THEN PushEntries(merged, Tail(entries), seen)
              ELSE PushEntries(Append(merged, entry), Tail(entries), seen \cup {entry})

\* a merge in which the list of the more specific layer replaces the other
MergeStringArraysOverrides(primary, hasSecondary, secondary) ==
  IF hasSecondary THEN secondary ELSE primary

\* mergeStringArrays(primary, secondary); hasSecondary: secondary is not
\* undefined
MergeStringArrays(primary, hasSecondary, secondary) ==
  IF ~hasSecondary \/ Len(secondary) = 0
    THEN primary
    ELSE PushEntries(<<>>, primary \o secondary, {})

\* mergeSettings(base, partial)
MergeSettings(base, partial) ==
  LET partialQcc == IF "qcc" \in DOMAIN partial THEN partial["qcc"] ELSE Option(FALSE, "", "")
      partialClangd == IF "clangd" \in DOMAIN partial THEN partial["clangd"]
                       ELSE Option(FALSE, "", "")
      hasPaths == "includePaths" \in DOMAIN partialQcc
      includePaths == MergeStringArrays(
                        IF "includePaths" \in DOMAIN base["qcc"] THEN base["qcc"]["includePaths"]
                                                                 ELSE <<>>,
                        hasPaths,
                        IF hasPaths THEN partialQcc["includePaths"] ELSE <<>>)
      mergedQcc == Spread(Spread(base["qcc"], partialQcc), Option(TRUE, "includePaths", includePaths))
  IN Spread(Spread(base, partial),
            Option(TRUE, "qcc", mergedQcc)
              @@ Option(TRUE, "clangd", Spread(base["clangd"], partialClangd)))

\* a layer is about to be merged into a settings value
InitSettings ==
  /\ InitClientFields
  /\ NoCapability
  /\ NoCaches
  /\ NoWire
  /\ call \in [fn : {"mergeSettings"}, base : BaseSettings, partial : PartialSettings,
               returned : BOOLEAN, result : {Option(FALSE, "", "")}]
  /\ ~call.returned

CallMergeSettings ==
  /\ call.fn = "mergeSettings"
  /\ ~call.returned
  /\ SetClient([Cur EXCEPT !.call.returned = TRUE,
                           !.call.result = MergeSettings(call.base, call.partial)])

NextSettings == CallMergeSettings

SpecSettings == InitSettings /\ [][NextSettings]_vars

\* the group g of a layer; a layer without it has no key of it
Group(layer, g) == IF g \in DOMAIN layer THEN layer[g] ELSE Option(FALSE, "", "")

\* in the group g of the result the key k has the value of the more specific
\* layer if that layer has it, else that of the less specific layer
LeftBiased(g, k) ==
  Group(call.result, g)[k] = IF k \in DOMAIN Group(call.partial, g)
                               THEN Group(call.partial, g)[k]
                               ELSE Group(call.base, g)[k]

\* -- C30 as stated: every key of a merged settings value, the nested
\* analyzer keys and the include-path list among them, has the value of the
\* more specific layer if that layer has the key, and else the value of the
\* less specific layer.
C30_LeftBiased_Original ==
  (call.fn = "mergeSettings" /\ call.returned) =>
    /\ call.result["qccPath"] = IF "qccPath" \in DOMAIN call.partial THEN call.partial["qccPath"]
                                                                     ELSE call.base["qccPath"]
    /\ \A k \in {"enabled", "mode"} : LeftBiased("clangd", k)
    /\ LeftBiased("qcc", "includePaths")

\* the list without its empty entries and without every entry that
\* occurred before
DistinctEntries(list) ==
  LET kept == {k \in DOMAIN list : list[k] # "" /\ \A j \in 1..(k - 1) : list[j] # list[k]}
  IN [n \in 1..Cardinality(kept) |->
        list[CHOOSE k \in kept : Cardinality({j \in kept : j < k}) = n - 1]]

\* -- C30: every key of a merged settings value other than the include-path
\* list, the nested analyzer keys among them, has the value of the more
\* specific layer if that layer has the key, and else the value of the less
\* specific layer; the include-path list is that of the less specific layer
\* if the more specific layer has none or an empty one, and else the entries
\* of the less specific layer followed by those of the more specific layer,
\* without the empty and the repeated ones.
C30_LeftBiased ==
  (call.fn = "mergeSettings" /\ call.returned) =>
    /\ call.result["qccPath"] = IF "qccPath" \in DOMAIN call.partial THEN call.partial["qccPath"]
                                                                     ELSE call.base["qccPath"]
    /\ \A k \in {"enabled", "mode"} : LeftBiased("clangd", k)
    /\ LET base == call.base["qcc"]["includePaths"]
           partial == Group(call.partial, "qcc")
       IN call.result["qcc"]["includePaths"] =
            IF "includePaths" \notin DOMAIN partial \/ partial["includePaths"] = <<>>
              THEN base
              ELSE DistinctEntries(base \o partial["includePaths"])

\* the more specific layer has the analyzer mode but not its enabled flag,
\* and both layers have include paths, one of them in common
C30_Witness ==
  /\ call.fn = "mergeSettings"
  /\ call.returned
  /\ DOMAIN Group(call.partial, "clangd") = {"mode"}
  /\ call.base["qcc"]["includePaths"] = <<"/p", "/q">>
  /\ "includePaths" \in DOMAIN Group(call.partial, "qcc")
  /\ Group(call.partial, "qcc")["includePaths"] = <<"/q", "">>

\* ----------------------------------- the documentation index (SpecDocs)

\* the roots a caller may pass: the empty string, a path that is no
\* directory, a plain directory with and without a trailing separator, and a
\* project directory whose src directory holds the Basilisk sources
RawRoots == {"", "/gone", "/d", "/d/", "/p"}

\* isDirectory(root)
IsDirectory(root) == root \in {"/d", "/d/", "/p", "/p/src"}

\* isBasiliskSourceDir(dir): a directory with one of the marker files
IsBasiliskSourceDir(dir) == dir = "/p/src"

\* path.join(root, 'src') for the roots above
JoinSrc(root) ==
  IF root = "/p" THEN "/p/src" ELSE IF root = "/d" THEN "/d/src" ELSE IF root = "/d/" THEN "/d/src"
  ELSE IF root = "/gone" THEN "/gone/src" ELSE "src"

\* path.resolve(candidate): absolute paths lose a trailing separator
PathResolve(candidate) == IF candidate = "/d/" THEN "/d" ELSE candidate

\* resolveDocRoot(root): the Basilisk source directory at or under root,
\* else root if it is a directory, else null ("")
ResolveDocRoot(root) ==
  IF root # "" /\ IsBasiliskSourceDir(root) THEN root
  ELSE IF root # "" /\ IsBasiliskSourceDir(JoinSrc(root)) THEN JoinSrc(root)
  ELSE IF IsDirectory(root) THEN root
  ELSE ""

\* the loop of resolveDocRoots over roots, with the list resolved so far
RECURSIVE ResolveRoots(_, _)
ResolveRoots(roots, resolved) ==
  IF roots = <<>> THEN resolved
  ELSE LET root == Head(roots)
           candidate == ResolveDocRoot(root)
           normalized == PathResolve(candidate)
       IN IF root = "" \/ candidate = "" \/ \E k \in DOMAIN resolved : resolved[k] = normalized
            THEN ResolveRoots(Tail(roots), resolved)
            ELSE ResolveRoots(Tail(roots), Append(resolved, normalized))

\* resolveDocRoots(roots)
ResolveDocRoots(roots) == ResolveRoots(roots, <<>>)

\* the documented symbols of the files under a root
SymbolsUnder(root) == IF root = "/p/src" THEN 1 ELSE 0

RECURSIVE CountSymbols(_)
CountSymbols(sourceRoots) ==
  IF sourceRoots = <<>> THEN 0 ELSE SymbolsUnder(Head(sourceRoots)) + CountSymbols(Tail(sourceRoots))

\* the result of buildDocIndex(sourceRoots)
BuildDocIndex(sourceRoots) == [from |-> sourceRoots, size |-> CountSymbols(sourceRoots)]

\* `await p` on the promise of build b by call i: the continuation is queued
\* if the build has ended, else registered with the build
AwaitBuild(w, b, i) ==
  IF w.docs.builds[b].state = "done"
    THEN Enqueue(w, "docs", i, 0)
    ELSE [w EXCEPT !.docs.builds[b].waiters = Append(@, i)]

\* mutant: the loop without the test of `loading`
EnsureLoopAlwaysBuilds(w, i) ==
  LET key == w.docs.calls[i].key
      b == Len(w.docs.builds) + 1
  IN IF w.docs.docRootKey = key /\ w.docs.docIndex.size > 0
       THEN [w EXCEPT !.docs.calls[i].pc = "returned"]
       ELSE [w EXCEPT !.docs.builds = Append(@, [roots |-> key, state |-> "running",
                                                 waiters |-> <<i>>]),
                      !.docs.loading = b,
                      !.docs.calls[i].pc = "awaitLoading"]

\* one pass of the while (true) loop of ensureBasiliskDocs for call i, up to
\* its return or its next await: the cache test, the wait for the build in
\* flight, or a new build (the async function runs buildDocIndex up to its
\* first read of a directory) and the wait for it
EnsureLoop(w, i) ==
  LET key == w.docs.calls[i].key
      b == Len(w.docs.builds) + 1
  IN IF w.docs.docRootKey = key /\ w.docs.docIndex.size > 0
       THEN [w EXCEPT !.docs.calls[i].pc = "returned"]
     ELSE IF w.docs.loading # 0
       THEN AwaitBuild([w EXCEPT !.docs.calls[i].pc = "awaitExisting",
                                 !.docs.calls[i].waited = TRUE], w.docs.loading, i)
     ELSE [w EXCEPT !.docs.builds = Append(@, [roots |-> key, state |-> "running",
                                               waiters |-> <<i>>]),
                    !.docs.loading = b,
                    !.docs.calls[i].pc = "awaitLoading"]

\* ensureBasiliskDocs(roots) up to its return or its first await
EnsureBasiliskDocs(w, roots) ==
  LET docRoots == ResolveDocRoots(roots)
      i == Len(w.docs.calls) + 1
  IN IF docRoots = <<>>
       THEN [w EXCEPT !.docs.docRootKey = <<>>,
                      !.docs.docIndex = EmptyIndex,
                      !.docs.calls = Append(@, [pc |-> "returned", key |-> <<>>,
                                                  waited |-> FALSE])]
       ELSE EnsureLoop([w EXCEPT !.docs.calls = Append(@, [pc |-> "called", key |-> docRoots,
                                                           waited |-> FALSE])], i)

RECURSIVE QueueEach(_, _)
QueueEach(w, waiters) ==
  IF waiters = <<>> THEN w ELSE QueueEach(Enqueue(w, "docs", Head(waiters), 0), Tail(waiters))

\* the async function of build b after `await buildDocIndex(roots)`: the
\* index and its key are replaced, the promise is resolved and the
\* continuations that await it are queued in the order they registered
BuildEnds(w, b) ==
  LET build == w.docs.builds[b]
  IN QueueEach([w EXCEPT !.docs.docIndex = BuildDocIndex(build.roots),
                         !.docs.docRootKey = build.roots,
                         !.docs.builds[b].state = "done",
                         !.docs.builds[b].waiters = <<>>],
               build.waiters)

\* ensureBasiliskDocs of call i after an await: the finally block and the
\* return of the call that started the build, the next pass of the loop of
\* a call that waited for the build of another
EnsureResume(w, i) ==
  IF w.docs.calls[i].pc = "awaitLoading"
    THEN [w EXCEPT !.docs.loading = 0, !.docs.calls[i].pc = "returned"]
    ELSE EnsureLoop(w, i)

\* a caller calls ensureBasiliskDocs; no continuation of an earlier call is
\* queued then, since the last read of a build is the only job of its turn
CallEnsureBasiliskDocs(roots) ==
  /\ Quiescent
  /\ Len(docs.calls) < MaxDocCalls
  /\ SetClient(EnsureBasiliskDocs(Cur, roots))

\* the last read of build b has ended and buildDocIndex returns
BuildCompletes(b) ==
  /\ Quiescent
  /\ b \in DOMAIN docs.builds
  /\ docs.builds[b].state = "running"
  /\ SetClient(BuildEnds(Cur, b))

ResumeEnsureBasiliskDocs(i) ==
  /\ Turn("docs", i)
  /\ SetClient(EnsureResume(Dequeued, i))

RootLists == ListsOf(RawRoots, 2)

NextDocs ==
  \/ \E roots \in RootLists : CallEnsureBasiliskDocs(roots)
  \/ \E b \in 1..MaxDocCalls : BuildCompletes(b)
  \/ \E i \in 1..MaxDocCalls : ResumeEnsureBasiliskDocs(i)

InitDocs == InitClient

SpecDocs == InitDocs /\ [][NextDocs]_vars

\* the builds in flight
InFlight(d) == {b \in DOMAIN d.builds : d.builds[b].state = "running"}

\* call i returns in this step
Returns(i) ==
  /\ i \in DOMAIN docs'.calls
  /\ docs'.calls[i].pc = "returned"
  /\ i \in DOMAIN docs.calls => docs.calls[i].pc # "returned"

\* call i is made in this step
Called(i) == i \in DOMAIN docs'.calls /\ i \notin DOMAIN docs.calls

Documents == {<<"/p", "a.c">>, <<"/q", "a.c">>, <<"/p", "b.c">>}

\* path.basename(documentUri)
Basename(documentUri) == documentUri[2]

\* path.join(tempRoot, `basilisk_${Date.now()}_${fileName}`)
TempFilePath(now, documentUri) == <<"basilisk_", now, "_", Basename(documentUri)>>

\* fs.writeFileSync(tempFile, content): the file is created or overwritten;
\* what it holds is the text given by run i
WriteFileSync(files, tmpFile, i) ==
  [f \in DOMAIN files \cup {tmpFile} |-> IF f = tmpFile THEN i ELSE files[f]]

\* fs.unlinkSync(tempFile)
UnlinkSync(files, tmpFile) == [f \in DOMAIN files \ {tmpFile} |-> files[f]]

\* time passes: Date.now() gives the next millisecond
ClockTicks ==
  /\ temp.clock < MaxClock
  /\ SetClient([Cur EXCEPT !.temp.clock = @ + 1])

\* runDiagnostics(documentUri, content, settings) up to `await runCommand`:
\* the file is written and the compiler spawned on it.  Calls made by
\* continuations that run one after the other (two validations that waited
\* for the same settings lookup) read the same millisecond.
RunStarts(documentUri) ==
  /\ Len(temp.runs) < MaxRuns
  /\ LET i == Len(temp.runs) + 1
         tmpFile == TempFilePath(temp.clock, documentUri)
     IN SetClient([Cur EXCEPT !.temp.files = WriteFileSync(@, tmpFile, i),
                              !.temp.runs = Append(@, [pc |-> "awaitCommand", tempFile |-> tmpFile,
                                                       read |-> "none"])])

\* the compiler of run i opens its input: the file is there with the text
\* of the run, with the text of another run, or not at all
CompilerReads(i) ==
  /\ i \in DOMAIN temp.runs
  /\ temp.runs[i].pc = "awaitCommand"
  /\ temp.runs[i].read = "none"
  /\ LET tmpFile == temp.runs[i].tempFile
     IN SetClient([Cur EXCEPT !.temp.runs[i].read =
                                 IF tmpFile \notin DOMAIN temp.files THEN "missing"
                                 ELSE IF temp.files[tmpFile] = i THEN "own"
                                 ELSE "other"])

\* runCommand of run i settles and runDiagnostics runs its finally block:
\* `if (tempFile && fs.existsSync(tempFile)) fs.unlinkSync(tempFile)`
RunFinishes(i) ==
  /\ i \in DOMAIN temp.runs
  /\ temp.runs[i].pc = "awaitCommand"
  /\ LET tmpFile == temp.runs[i].tempFile
     IN SetClient([Cur EXCEPT !.temp.runs[i].pc = "returned",
                              !.temp.files = IF tmpFile \in DOMAIN @ THEN UnlinkSync(@, tmpFile)
                                             ELSE @])

NextTemp ==
  \/ ClockTicks
  \/ \E documentUri \in Documents : RunStarts(documentUri)
  \/ \E i \in 1..MaxRuns : CompilerReads(i)
  \/ \E i \in 1..MaxRuns : RunFinishes(i)

InitTemp == InitClient

SpecTemp == InitTemp /\ [][NextTemp]_vars

\* runs i and j are both between their write and their cleanup
Overlap(i, j) == temp.runs[i].pc = "awaitCommand" /\ temp.runs[j].pc = "awaitCommand"

\* C36: two runs that overlap have different files, and the compiler of a
\* run finds the file of that run with the text of that run
C36_TempFilesUnique ==
  /\ \A i, j \in DOMAIN temp.runs :
       i # j /\ Overlap(i, j) => temp.runs[i].tempFile # temp.runs[j].tempFile
  /\ \A i \in DOMAIN temp.runs : temp.runs[i].read \in {"none", "own"}

\* ------------------------------------ executable resolution (SpecResolve)

\* A path is the sequence of its segments; the first segment of an absolute
\* path is a rooted directory.  The host is POSIX: the win32 branches
\* (PATHEXT, no permission test) are not modelled; no command starts with
\* a tilde or has an extension (with the one extension '' of POSIX the two
\* loops over the extensions do the same with and without one).
RootedDirs == {"/a", "/b", "/opt/homebrew/bin"}

\* path.isAbsolute(p)
IsAbsolute(p) == p # <<>> /\ Head(p) \in RootedDirs

\* path.join(dir, p)
PathJoin(dir, p) == <<dir>> \o p

\* the file system: what is at each path where a compiler may be (absent, a
\* file without execute permission, an executable file)
FileSystems == [{<<d, "qcc">> : d \in RootedDirs} -> {"absent", "file", "executable"}]

\* fs.existsSync(p)
ExistsSync(fs, p) == p \in DOMAIN fs /\ fs[p] # "absent"

\* fs.accessSync(p, fs.constants.X_OK) does not throw
AccessX(fs, p) == p \in DOMAIN fs /\ fs[p] = "executable"

\* no path (null)
NoPath == <<>>

\* the loop over pathDirs in resolveExecutableOnPath of pathUtils.ts
RECURSIVE SearchExecutable(_, _, _)
SearchExecutable(fs, pathDirs, expanded) ==
  IF pathDirs = <<>> THEN NoPath
  ELSE LET fullPath == PathJoin(Head(pathDirs), expanded)
       IN IF ExistsSync(fs, fullPath) /\ AccessX(fs, fullPath)
            THEN fullPath
            ELSE SearchExecutable(fs, Tail(pathDirs), expanded)

\* resolveExecutableOnPath(command) of pathUtils.ts; pathDirs is PATH split
\* at the delimiter, without its empty entries
PathUtilsResolveExecutableOnPath(fs, pathDirs, command) ==
  IF command = <<>> THEN NoPath
  ELSE IF IsAbsolute(command)
    THEN IF ~ExistsSync(fs, command) THEN NoPath
         ELSE IF AccessX(fs, command) THEN command
         ELSE NoPath
  ELSE SearchExecutable(fs, pathDirs, command)

\* the loop over pathDirs in resolveExecutableOnPath of diagnostics.ts
RECURSIVE SearchExisting(_, _, _)
SearchExisting(fs, pathDirs, expanded) ==
  IF pathDirs = <<>> THEN NoPath
  ELSE LET fullPath == PathJoin(Head(pathDirs), expanded)
       IN IF ExistsSync(fs, fullPath)
            THEN fullPath
            ELSE SearchExisting(fs, Tail(pathDirs), expanded)

\* resolveExecutableOnPath(command) of diagnostics.ts, the one the compiler
\* runner calls
ResolveExecutableOnPath(fs, pathDirs, command) ==
  IF command = <<>> THEN NoPath
  ELSE IF IsAbsolute(command)
    THEN IF ExistsSync(fs, command) THEN command ELSE NoPath
  ELSE SearchExisting(fs, pathDirs, command)

\* resolveQccCandidates(settings) with no Basilisk root configured: the
\* configured path, then the fixed places (/usr/local/bin is taken to hold
\* no compiler)
ResolveQccCandidates(qccPath) ==
  (IF qccPath # <<>> THEN <<qccPath>> ELSE <<>>) \o <<<<"/opt/homebrew/bin", "qcc">>>>

\* the loop of resolveQccPath
RECURSIVE FirstResolved(_, _, _)
FirstResolved(fs, pathDirs, candidates) ==
  IF candidates = <<>> THEN NoPath
  ELSE LET candidate == Head(candidates)
           onPath == ResolveExecutableOnPath(fs, pathDirs, candidate)
           resolved == IF onPath # NoPath THEN onPath
                       ELSE IF IsAbsolute(candidate) THEN candidate
                       ELSE NoPath
       IN IF resolved # NoPath /\ ExistsSync(fs, resolved)
            THEN resolved
            ELSE FirstResolved(fs, pathDirs, Tail(candidates))

\* resolveQccPath(settings)
ResolveQccPath(fs, pathDirs, qccPath) ==
  FirstResolved(fs, pathDirs, ResolveQccCandidates(qccPath))

\* the commands: none, a bare name, an absolute path
Commands == {<<>>, <<"qcc">>, <<"/a", "qcc">>}

\* the search paths
SearchPaths == ListsOf({"/a", "/b"}, MaxSearch)

Resolvers == {"pathUtils.resolveExecutableOnPath", "resolveExecutableOnPath", "resolveQccPath"}

InitResolve ==
  /\ InitClientFields
  /\ NoCapability
  /\ NoCaches
  /\ NoWire
  /\ call \in [fn : Resolvers, fs : FileSystems, pathDirs : SearchPaths, command : Commands,
               returned : {FALSE}, result : {NoPath}]

\* the resolver is called and returns
CallResolve ==
  /\ ~call.returned
  /\ LET result == IF call.fn = "resolveQccPath"
                     THEN ResolveQccPath(call.fs, call.pathDirs, call.command)
                   ELSE IF call.fn = "resolveExecutableOnPath"
                     THEN ResolveExecutableOnPath(call.fs, call.pathDirs, call.command)
                   ELSE PathUtilsResolveExecutableOnPath(call.fs, call.pathDirs, call.command)
     IN SetClient([Cur EXCEPT !.call.returned = TRUE, !.call.result = result])

NextResolve == CallResolve

SpecResolve == InitResolve /\ [][NextResolve]_vars

\* there is an executable file at the path
Executable(p) == ExistsSync(call.fs, p) /\ AccessX(call.fs, p)

\* the directories of the search path, by position, that hold an executable
\* file of the command's name
Matches == {i \in DOMAIN call.pathDirs : Executable(PathJoin(call.pathDirs[i], call.command))}

\* C33: a path that a resolver returns is that of an executable file; for a
\* command that is not absolute resolveExecutableOnPath returns the match in
\* the first directory of the search path that has one, and no path iff no
\* directory has one
C33_ExecutableResolution ==
  call.returned =>
    /\ call.result # NoPath => Executable(call.result)
    /\ call.fn # "resolveQccPath" /\ call.command # <<>> /\ ~IsAbsolute(call.command) =>
         /\ call.result = NoPath <=> Matches = {}
         /\ Matches # {} =>
              call.result = PathJoin(call.pathDirs[CHOOSE i \in Matches : \A j \in Matches : i <= j],
                                     call.command)

\* ------------------------------------ the standalone checker (SpecCheck)

\* runClangdDiagnostics() returns or throws: the `await` of run() is queued
QuerySettles(w, t, threw) ==
  Enqueue([w EXCEPT !.check.query = IF threw THEN "threw" ELSE "returned",
                    !.tasks[t].pc = "querySettled"],
          "task", t, 0)

\* runClangdDiagnostics() up to `await client.start(initParams)`: a client
\* is constructed, the callback installed, start() called
RunClangdDiagnostics(w, t) ==
  LET c == w.created + 1
      w1 == [w EXCEPT !.created = c, !.onDiagnosticsCallback[c] = "checker"]
  IN [StartBegin(w1, c) EXCEPT !.tasks[t].c = c, !.tasks[t].pc = "awaitStart",
                               !.readyWaiters[c] = <<t>>]

\* runClangdDiagnostics() after `await client.start(initParams)`, whose
\* rejection it does not catch: the readiness test, didOpen, the timer of
\* 4000 ms, and `await Promise.race([...])`
QueryAfterStart(w, t) ==
  LET c == w.tasks[t].c IN
  IF w.tasks[t].res = "err" THEN QuerySettles(w, t, TRUE)
  ELSE IF ~w.ready[c] THEN StopBegin([w EXCEPT !.tasks[t].phase = "notready"], t, c)
  ELSE LET w1 == Notify(w, c, "textDocument/didOpen")
           w2 == [w1 EXCEPT !.check.timer = "armed", !.check.race = "pending",
                            !.tasks[t].pc = "awaitRace", !.tasks[t].phase = "race"]
       IN IF w2.check.promise = "resolved"
            THEN RaceSettles(w2, t, "diagnostics", w2.check.resolved)
            ELSE w2

\* what runClangdDiagnostics returns of the diagnostics the race gave
ReturnedInMode(w, diagnostics) ==
  IF w.check.diagnosticsMode = "none" THEN <<>>
  ELSE IF w.check.diagnosticsMode = "filtered" THEN FilterClangdDiagnostics(diagnostics, w.docText)
  ELSE diagnostics

\* runClangdDiagnostics() after an `await client.stop()`, whose rejection it
\* does not catch: the stop of a client that was not ready is followed by a
\* throw, the other by the return of the diagnostics
QueryAfterStop(w, t, threw) ==
  IF threw \/ w.tasks[t].phase = "notready"
    THEN QuerySettles(w, t, TRUE)
    ELSE QuerySettles([w EXCEPT !.check.result = ReturnedInMode(w, w.check.value)], t, FALSE)

\* run() returns
RunEnds(w) == [w EXCEPT !.check.pc = "returned"]

\* applyProjectConfig(): a file that could not be loaded sets the exit code
\* when its path was given on the command line
ApplyProjectConfig(w) ==
  IF w.check.configError /\ w.check.configPath THEN [w EXCEPT !.check.exitCode = 2] ELSE w

\* merged.some((diagnostic) => diagnostic.severity === DiagnosticSeverity.Error)
HasError(list) == \E i \in DOMAIN list : list[i].severity = 1

\* run() from `if (!qccAvailable && !shouldRunClangd)` to its end
RunTail(w, limit) ==
  IF ~w.check.qccAvailable /\ ~w.check.shouldRunClangd
    THEN RunEnds([w EXCEPT !.check.exitCode = 2])
    ELSE LET merged == SliceTo(DedupeDiagnostics(w.check.diagnostics), limit)
         IN RunEnds([w EXCEPT !.check.printed = TRUE, !.check.reported = merged,
                              !.check.exitCode = IF HasError(merged) THEN 1 ELSE @])

\* a diagnostic of warning severity
Warning(d) == [d EXCEPT !.severity = 2]

\* what a `check` run is given: the file, the project config, the compiler,
\* the settings, and what quickValidate and the compiler find in the file
CheckInputs ==
  [fileExists : BOOLEAN, configPath : BOOLEAN, configError : BOOLEAN, qccAvailable : BOOLEAN,
   clangd : {"disabled", "proxy"}, diagnosticsMode : {"none", "filtered", "all"},
   quick : {<<>>, <<Warning(Diagnostic("quick", 0, 0, FALSE))>>},
   limit : {1, maxNumberOfProblems}]

\* run() of a `check` command up to `await checkQccAvailable(...)`
RunCheck(w, t, in) ==
  LET w1 == [w EXCEPT !.tasks[t].kind = "check",
                      !.check = [NoCheck EXCEPT !.fileExists = in.fileExists,
                                                !.configPath = in.configPath,
                                                !.configError = in.configError,
                                                !.qccAvailable = in.qccAvailable,
                                                !.shouldRunClangd = in.clangd = "proxy" /\ ~in.qccAvailable,
                                                !.diagnosticsMode = in.diagnosticsMode],
                      !.settings.maxNumberOfProblems = in.limit]
  IN IF ~in.fileExists THEN RunEnds([w1 EXCEPT !.check.exitCode = 1])
     ELSE LET w2 == ApplyProjectConfig(w1)
          IN IF in.configPath /\ w2.check.exitCode = 2 THEN RunEnds(w2)
             ELSE [w2 EXCEPT !.check.diagnostics = in.quick, !.check.pc = "awaitCompiler"]

\* run() after `await checkQccAvailable` and, under enableDiagnostics,
\* `await runDiagnostics`; qcc is what the latter added to the list
RunAfterCompiler(w, t, qcc) ==
  LET w1 == [w EXCEPT !.check.diagnostics = @ \o qcc]
  IN IF w1.check.shouldRunClangd
       THEN RunClangdDiagnostics([w1 EXCEPT !.check.pc = "awaitClangd"], t)
       ELSE RunTail(w1, w1.settings.maxNumberOfProblems)

\* run() after `await runClangdDiagnostics(...)` and its catch block
RunAfterQuery(w, t) ==
  IF w.check.query = "threw"
    THEN RunEnds([w EXCEPT !.check.exitCode = 2])
    ELSE RunTail([w EXCEPT !.check.diagnostics = @ \o w.check.result],
                 w.settings.maxNumberOfProblems)

\* an uncaught exception ends the process of the checker; the 'error' event
\* of a child that could not be spawned is the one event that throws one, and
\* after it the 'exit' event of that child is all that could still reach the
\* checker
Alive == uncaught = 0

\* the analyzer exits while the checker runs
AnalyzerExits(c) == Alive /\ ProcessExit(c)

\* the command line is `check <file>` with some flags
CallRun(t, in) ==
  /\ check.pc = "idle"
  /\ SetClient(RunCheck(Cur, t, in))

\* the compiler probe and the compiler run are over; the compiler reports a
\* problem only if it is there and enableDiagnostics is set
CompilerDone(t, reports) ==
  /\ Quiescent
  /\ check.pc = "awaitCompiler"
  /\ reports => check.qccAvailable
  /\ SetClient(RunAfterCompiler(Cur, t, RunDiagnostics(0, 0, reports)))

\* the uri and the diagnostics of the reports the analyzer makes
Reports == {<<0, 0>>, <<0, 3>>, <<1, 1>>}

\* the analyzer writes a publishDiagnostics frame for the file (uri 0) or
\* for another file
AnalyzerReports(c, uri, payload) ==
  /\ Quiescent
  /\ os[c] = "running"
  /\ events < MaxReports
  /\ SetClient([Cur EXCEPT !.buffered[c] = Append(@, [NotificationMsg("textDocument/publishDiagnostics", payload)
                                                        EXCEPT !.id = uri]),
                           !.emitted[c] = @ + 1,
                           !.events = @ + 1])

\* the timer of runClangdDiagnostics fires: timeoutPromise resolves with []
TimeoutFires(t) ==
  /\ Quiescent
  /\ check.timer = "armed"
  /\ SetClient(RaceSettles([Cur EXCEPT !.check.timer = "fired"], t, "timeout", <<>>))

ResumeQueryAfterStart(t) ==
  /\ Turn("task", t)
  /\ tasks[t].kind = "check"
  /\ tasks[t].pc = "startSettled"
  /\ SetClient(QueryAfterStart(Dequeued, t))

\* runClangdDiagnostics() after the race: `await client.stop()`
ResumeQueryAfterRace(t) ==
  /\ Turn("task", t)
  /\ tasks[t].pc = "raceSettled"
  /\ SetClient(StopBegin(Dequeued, t, tasks[t].c))

ResumeQueryAfterStop(t) ==
  /\ Turn("task", t)
  /\ tasks[t].kind = "check"
  /\ tasks[t].pc \in {"stopReturned", "stopThrew"}
  /\ SetClient(QueryAfterStop(Dequeued, t, tasks[t].pc = "stopThrew"))

ResumeRunAfterQuery(t) ==
  /\ Turn("task", t)
  /\ tasks[t].pc = "querySettled"
  /\ SetClient(RunAfterQuery(Dequeued, t))

\* what the checker does by itself once its inputs are there: its
\* continuations, its timer, and the delivery of what the analyzer wrote
CheckerSteps ==
  \/ \E t \in CheckerTasks : TimeoutFires(t)
  \/ \E k \in 1..MaxChunk : StdoutData(TheClient, k)
  \/ ResumeInitialize(TheClient)
  \/ \E t \in CheckerTasks : ResumeAfterReady(t)
  \/ \E t \in CheckerTasks : ResumeStop(t)
  \/ \E t \in CheckerTasks : ResumeQueryAfterStart(t)
  \/ \E t \in CheckerTasks : ResumeQueryAfterRace(t)
  \/ \E t \in CheckerTasks : ResumeQueryAfterStop(t)
  \/ \E t \in CheckerTasks : ResumeRunAfterQuery(t)
  \/ PromiseReaction

\* a `check` run and the analyzer it may start
NextCheck ==
  \/ \E t \in CheckerTasks, in \in CheckInputs : CallRun(t, in)
  \/ \E t \in CheckerTasks, reports \in BOOLEAN : CompilerDone(t, reports)
  \/ \E m \in Emittable(TheClient) : ProcessAnswers(TheClient, m)
  \/ \E r \in Reports : AnalyzerReports(TheClient, r[1], r[2])
  \/ AnalyzerExits(TheClient)
  \/ SpawnError(TheClient)
  \/ CheckerSteps

InitCheck == InitClient

SpecCheck == InitCheck /\ [][NextCheck]_vars

\* the event loop is fair to the checker; the analyzer need not answer
SpecCheckFair == SpecCheck /\ WF_vars(CheckerSteps)

\* the analyzer query has ended: runClangdDiagnostics has returned or
\* thrown, or the process of the checker has died of an uncaught exception
QueryEnded == check.query # "none" \/ ~Alive

\* C31: a query that has been started ends, whatever the analyzer does or
\* fails to do, and a query that the timeout decided returns an empty list
C31_QueryTerminates ==
  /\ (check.pc = "awaitClangd") ~> QueryEnded
  /\ [](check.query = "returned" /\ check.winner = "timeout" => check.result = <<>>)

\* the exit code of the process: 1 after an uncaught exception, else
\* process.exitCode, where undefined (0) means 0
ExitCode == IF ~Alive THEN 1 ELSE check.exitCode

\* the three cases in which the run is to end with code 2
OperationalFailure ==
  \/ ~check.qccAvailable /\ ~check.shouldRunClangd
  \/ check.query = "threw" \/ ~Alive
  \/ check.configPath /\ check.configError

\* C32: a run that has ended has exit code 2 and has printed nothing in the
\* three failure cases, and else code 1 if an error is among the
\* diagnostics it printed and code 0 if none is
C32_ExitCodes ==
  check.pc = "returned" \/ ~Alive =>
    IF OperationalFailure
      THEN ExitCode = 2 /\ ~check.printed
      ELSE /\ ExitCode = 1 <=> HasError(check.reported)
           /\ ExitCode = 0 <=> ~HasError(check.reported)

\* ---------------------------------------------------- claims on documents

\* validation i completes in this step
Completes(i) ==
  /\ validations[i].pc = "collected"
  /\ validations'[i].pc \in {"stored", "dropped"}

\* C1: when a validation that had recorded an older version was in flight
\* while a validation of a newer version stored and published, its later
\* completion leaves the local diagnostics alone and sends nothing.
C1_StaleWriteSuppressed ==
  [][\A i \in DOMAIN validations :
       (Completes(i) /\ i \in superseded)
         => /\ localDiagnostics' = localDiagnostics
            /\ published' = published
            /\ sendFlip' = sendFlip]_vars

\* C2: a validation stores and publishes only if the document is still at
\* the version it recorded.
C2_DropIfVersionMoved ==
  [][\A i \in DOMAIN validations :
       (Completes(i) /\ objVersion[validations[i].obj] # validations[i].version)
         => /\ validations'[i].pc = "dropped"
            /\ localDiagnostics' = localDiagnostics
            /\ sendFlip' = sendFlip]_vars

\* C3: while the document is closed after having been open, the last list
\* sent to the editor for it is empty.
C3_EmptyAfterClose ==
  (docObj > 0 /\ ~docOpen) => published = <<>>

\* C34: once the document has been closed and while it is not open again,
\* none of the four per-document maps has an entry for it
C34_StateOnlyForOpen ==
  (docObj > 0 /\ ~docOpen) =>
    /\ localDiagnostics = "none"
    /\ localDiagnosticsVersion = 0
    /\ clangdDiagnostics = "none"
    /\ clangdDiagnosticsGeneration = 0

\* the trigger of an event is enabled by the settings
GateOn(trigger) ==
  \/ trigger = "open"
  \/ trigger = "change" /\ settings.diagnosticsOnType
  \/ trigger = "save" /\ settings.diagnosticsOnSave

\* -- C26: when a validation has its settings, it runs the quick validator
\* iff its trigger is open, or change with diagnosticsOnType, or save with
\* diagnosticsOnSave; it runs the compiler iff its trigger is change or save,
\* that gate is on and enableDiagnostics is set; and with the gate off it
\* leaves the local cache, the recorded version and the published list as
\* they are and sends nothing.
C26_TriggerGating ==
  [][\A i \in DOMAIN validations :
       (validations[i].pc = "awaitSettings" /\ validations'[i].pc # "awaitSettings") =>
         LET trigger == validations[i].trigger
             diags == validations'[i].diags
             quick == \E k \in DOMAIN diags : diags[k].source = <<"quick">>
             qcc == validations'[i].pc = "awaitQcc"
         IN /\ quick <=> GateOn(trigger)
            /\ qcc <=> (trigger # "open" /\ GateOn(trigger) /\ settings.enableDiagnostics)
            /\ ~GateOn(trigger) =>
                 /\ localDiagnostics' = localDiagnostics
                 /\ localDiagnosticsVersion' = localDiagnosticsVersion
                 /\ published' = published
                 /\ sendFlip' = sendFlip]_vars

\* a change of the text was gated off after an earlier validation had
\* stored and published its diagnostics, and a save has run the compiler
C26_Witness ==
  /\ \E i \in DOMAIN validations :
       /\ validations[i].pc = "gated"
       /\ validations[i].trigger = "change"
       /\ localDiagnosticsVersion < objVersion[validations[i].obj]
  /\ \E i \in DOMAIN validations : validations[i].pc = "stored" /\ validations[i].trigger = "save"
  /\ localDiagnostics # "none"
  /\ published # <<>>

\* ------------------------------------------------- claims on ClangdClient

\* The client has been started and has no process handle any more: stop() has
\* completed or the 'exit' event has been handled.
Stopped(c) == os[c] # "none" /\ ~process[c]

\* C5: once a client is stopped, its diagnostics callback is never invoked again.
C5_NoCallbackAfterStopped ==
  [][\A c \in Clients : Stopped(c) => cbCount'[c] = cbCount[c]]_vars

\* C6: when the process exits while the client holds its handle (starting or
\* ready), the client becomes stopped, every request pending at that moment
\* is rejected, and the pending table is empty afterwards.
C6_ExitRejectsPending ==
  [][\A c \in Clients :
       (process[c] /\ os[c] = "running" /\ os'[c] = "exited") =>
         /\ ~ready'[c]
         /\ ~process'[c]
         /\ pending'[c] = << >>
         /\ \A id \in DOMAIN pending[c] :
              /\ settleCount'[c][id] = settleCount[c][id] + 1
              /\ IF pending[c][id] = 0
                   THEN initResume'[c] = "err"
                   ELSE /\ tasks'[pending[c][id]].pc = "settled"
                        /\ tasks'[pending[c][id]].res = "err"]_vars

\* a request that was registered and sent has just been rejected by the exit
C6_Witness ==
  /\ os[TheClient] = "exited"
  /\ pending[TheClient] = << >>
  /\ \E t \in TaskIds :
       /\ tasks[t].kind = "request"
       /\ tasks[t].pc = "settled"
       /\ tasks[t].res = "err"
       /\ tasks[t].id # 0

\* C7: stop() on a client with a live process never throws, and when it has
\* returned the client has no process handle, is not ready, and both the
\* pending table and the notification queue are empty.
C7_StopCompletesClean ==
  \A t \in TaskIds :
    tasks[t].kind = "stop" =>
      /\ tasks[t].pc # "stopThrew"
      /\ (tasks[t].pc = "stopReturned" /\ tasks[t].res # "none") =>
           /\ ~process[tasks[t].c]
           /\ ~ready[tasks[t].c]
           /\ pending[tasks[t].c] = << >>
           /\ queuedNotifications[tasks[t].c] = <<>>

Notifications(c) == {i \in DOMAIN stdin[c] : stdin[c][i].kind = "notification"}

\* C8: notifications are written in the order notify() was called, except
\* that `initialized` is written before the ones queued during startup.
C8_NotificationOrder ==
  \A c \in Clients :
    /\ \A i, j \in Notifications(c) :
         (i < j /\ stdin[c][i].method # "initialized" /\ stdin[c][j].method # "initialized")
           => stdin[c][i].seq < stdin[c][j].seq
    /\ \A i, j \in Notifications(c) :
         stdin[c][j].method = "initialized" => j <= i

\* `initialized`, then one queued during startup, then one issued when ready
C8_Witness ==
  \E i, j, k \in Notifications(TheClient) :
    /\ i < j /\ j < k
    /\ stdin[TheClient][i].method = "initialized"
    /\ stdin[TheClient][j].seq < stdin[TheClient][i].seq
    /\ stdin[TheClient][k].seq > stdin[TheClient][i].seq

\* C9: nothing issued through request() or notify() is written before the
\* response to `initialize` has been received; `initialize` itself is the
\* first message written.
C9_ReadinessGate ==
  \A c \in Clients :
    /\ stdin[c] # <<>> => stdin[c][1] = RequestMsg(1, "initialize")
    /\ \A i \in DOMAIN stdin[c] :
         (stdin[c][i].kind \in {"request", "notification"} /\ stdin[c][i].method # "initialize")
           => initAnswered[c]

\* a request and a queued notification were written after the handshake
C9_Witness ==
  /\ initAnswered[TheClient]
  /\ \E i, j \in DOMAIN stdin[TheClient] :
       /\ stdin[TheClient][i].kind = "request" /\ stdin[TheClient][i].method # "initialize"
       /\ stdin[TheClient][j].kind = "notification" /\ stdin[TheClient][j].method \in ForwardedMethods
       /\ \E k \in DOMAIN stdin[TheClient] :
            stdin[TheClient][k].method = "initialized" /\ stdin[TheClient][j].seq < stdin[TheClient][k].seq

\* C35: the queue of a client that is ready, and of one that is stopped (its
\* process has exited or stop() has cleared the handle), is empty
C35_QueueOnlyBeforeReady ==
  \A c \in Clients : (ready[c] \/ Stopped(c)) => queuedNotifications[c] = <<>>

RequestsWritten(c) == {i \in DOMAIN stdin[c] : stdin[c][i].kind = "request"}

\* what handleMessage must do with a response carrying id i
ResponseEffect(c, i, e) ==
  LET r == HandleMessage(Cur, c, ResponseMsg(i, e))
      p == pending[c]
  IN IF i \in DOMAIN p
       THEN /\ DOMAIN r.pending[c] = DOMAIN p \ {i}
            /\ \A j \in DOMAIN p \ {i} : r.pending[c][j] = p[j]
            /\ r.settleCount[c] = [settleCount[c] EXCEPT ![i] = @ + 1]
            /\ IF p[i] = 0
                 THEN r.initResume[c] = (IF e THEN "err" ELSE "ok") /\ r.tasks = tasks
                 ELSE /\ r.tasks[p[i]].pc = "settled"
                      /\ r.tasks[p[i]].res = (IF e THEN "err" ELSE "ok")
                      /\ \A t \in TaskIds \ {p[i]} : r.tasks[t] = tasks[t]
                      /\ r.initResume = initResume
       ELSE r = Cur

\* C10: request ids are strictly increasing; a response settles exactly the
\* pending request with its id (rejecting iff it has an error) and removes
\* only that entry; a request is settled at most once; a response with no
\* pending entry changes nothing.
C10_Correlation ==
  \A c \in Clients :
    /\ \A i, j \in RequestsWritten(c) : i < j => stdin[c][i].id < stdin[c][j].id
    /\ \A i \in DOMAIN pending[c] : i < nextId[c]
    /\ \A i \in RequestsWritten(c) : stdin[c][i].id < nextId[c]
    /\ \A i \in 1..MaxId : settleCount[c][i] <= 1
    /\ \A i \in 1..MaxId, e \in BOOLEAN : ResponseEffect(c, i, e)

\* a sent request was rejected by an error response while another request is
\* still pending
C10_Witness ==
  /\ os[TheClient] = "running"
  /\ \E t \in TaskIds :
       /\ tasks[t].kind = "request" /\ tasks[t].pc = "rejected" /\ tasks[t].id # 0
       /\ \E u \in TaskIds \ {t} : tasks[u].pc = "awaitResp" /\ tasks[u].id \in DOMAIN pending[TheClient]

\* the neutral result a reverse request is answered with
NeutralReply(m) ==
  IF m.method = "workspace/configuration" THEN ReplyMsg(m.id, "[{}]", m.seq)
  ELSE IF m.method = "workspace/applyEdit" THEN ReplyMsg(m.id, "{applied:false}", 0)
  ELSE ReplyMsg(m.id, "null", 0)

Replies(msgs) == SelectSeq(msgs, LAMBDA m : m.kind = "reply")

\* the neutral replies to the reverse requests among frames
RECURSIVE NeutralReplies(_)
NeutralReplies(msgs) ==
  IF msgs = <<>> THEN <<>>
  ELSE (IF Head(msgs).kind = "serverRequest" THEN <<NeutralReply(Head(msgs))>> ELSE <<>>)
       \o NeutralReplies(Tail(msgs))

\* the frames handed to handleData in this step
Consumed(c) == SubSeq(buffered[c], 1, Len(buffered[c]) - Len(buffered'[c]))

\* C11: while the client holds its process, a reverse request (a message with
\* a method and an id) is answered with exactly one response of the same id
\* and a neutral result, and handling it changes nothing else: neither the
\* pending table nor the readiness flag.  Every chunk of frames is answered
\* reverse request by reverse request, in order.
C11_ReverseRequestAnswered ==
  /\ [](\A c \in Clients : \A m \in ServerRequests :
          HandleMessage(Cur, c, m) =
            IF process[c] THEN [Cur EXCEPT !.stdin[c] = Append(@, NeutralReply(m))] ELSE Cur)
  /\ [][\A c \in Clients :
          (process[c] /\ Len(buffered'[c]) < Len(buffered[c]))
            => Replies(stdin'[c]) = Replies(stdin[c]) \o NeutralReplies(Consumed(c))]_vars

\* a reverse request with the id of the pending `initialize` request has been
\* answered, and `initialize` is still pending
C11_Witness ==
  /\ process[TheClient]
  /\ ~ready[TheClient]
  /\ 1 \in DOMAIN pending[TheClient]
  /\ \E i \in DOMAIN stdin[TheClient] :
       stdin[TheClient][i] = ReplyMsg(1, "[{}]", 2)

\* ---------------------------------------------------- claims on the framing

\* number of bytes delivered so far
Delivered == Len(Stream(frames)) - Len(wire)

\* number of leading frames that lie wholly within the first n bytes
RECURSIVE CompleteFrames(_, _)
CompleteFrames(bodies, n) ==
  IF bodies = <<>> \/ Len(WireFrame(Head(bodies))) > n THEN 0
  ELSE 1 + CompleteFrames(Tail(bodies), n - Len(WireFrame(Head(bodies))))

\* the messages that were encoded into the well-formed ones of bodies
RECURSIVE Sent(_)
Sent(bodies) ==
  IF bodies = <<>> THEN <<>>
  ELSE (IF Head(bodies) \in MalformedBodies THEN <<>>
        ELSE <<CHOOSE m \in FrameMessages : Encode(JsonText(m)) = WireFrame(Head(bodies))>>)
       \o Sent(Tail(bodies))

Arrived == SubSeq(frames, 1, CompleteFrames(frames, Delivered))

\* C12: when the child writes messages framed as send() frames them, then
\* however the byte stream is cut into chunks, the messages of the frames
\* that have arrived in full have been dispatched, each once and in order,
\* and after the last chunk the buffer is empty.
C12_FramingRoundTrip ==
  (\A i \in DOMAIN frames : frames[i] \notin MalformedBodies)
    => /\ dispatched[TheClient] = Sent(Arrived)
       /\ parseErrors[TheClient] = 0
       /\ wire = <<>> => buffer[TheClient] = <<>>

\* a notification with a two-byte character and a reverse request with a
\* two-digit length have gone through, cut inside a frame
C12_Witness ==
  /\ frames = <<BodyOf(NotificationMsg("textDocument/publishDiagnostics", 1)),
                BodyOf(ServerRequestMsg("workspace/configuration", 1, 2))>>
  /\ wire = <<>>
  /\ split
  /\ dispatched[TheClient] = <<NotificationMsg("textDocument/publishDiagnostics", 1),
                               ServerRequestMsg("workspace/configuration", 1, 2)>>
  /\ stdin[TheClient][Len(stdin[TheClient])] = ReplyMsg(1, "[{}]", 2)

\* C13: a frame whose body does not parse is consumed in full and dispatches
\* nothing: the buffer always holds exactly the bytes received after the
\* last frame that arrived in full, and the well-formed frames that arrived,
\* and only they, have been dispatched, in order.
C13_MalformedSkipped ==
  /\ buffer[TheClient] = SubSeq(Stream(frames), Len(Stream(Arrived)) + 1, Delivered)
  /\ dispatched[TheClient] = Sent(Arrived)
  /\ parseErrors[TheClient] = Cardinality({i \in DOMAIN Arrived : Arrived[i] \in MalformedBodies})

\* a body of header bytes was skipped and the frame after it dispatched
C13_Witness ==
  /\ Len(frames) = 2
  /\ frames[1] = <<"CL", "SP", "1">> \o CRLFCRLF \o <<"}">>
  /\ frames[2] = BodyOf(ResponseMsg(1, FALSE))
  /\ wire = <<>>
  /\ split
  /\ parseErrors[TheClient] = 1
  /\ dispatched[TheClient] = <<ResponseMsg(1, FALSE)>>
  /\ ready[TheClient]

\* ------------------------------------- claims on the analyzer diagnostics

\* the continuation of arrival k runs in this step
Resumes(k) ==
  /\ diagCallbacks[k].pc = "awaitSettings"
  /\ diagCallbacks'[k].pc # "awaitSettings"

\* C14: when a later report of the analyzer has arrived for the document
\* before the settings lookup of an earlier one completed, the earlier one
\* is discarded: it is not written to the analyzer cache and nothing is
\* published for it.
C14_OlderArrivalDiscarded ==
  [][\A k \in DOMAIN diagCallbacks :
       (Resumes(k) /\ k < Len(diagCallbacks))
         => /\ diagCallbacks'[k].pc = "dropped"
            /\ clangdDiagnostics' = clangdDiagnostics
            /\ sendFlip' = sendFlip]_vars

\* C15: every arrival is stamped with a generation greater than that of
\* every earlier arrival for the document.
C15_GenerationMonotonic ==
  \A j, k \in DOMAIN diagCallbacks :
    j < k => diagCallbacks[j].generation < diagCallbacks[k].generation

\* C16: when the report of the analyzer for an open document is still the
\* latest generation after the settings lookup, it is cached under the mode
\* policy and the merged set is sent to the editor, whatever the trigger
\* settings are.
C16_LatestRepublished ==
  [][\A k \in DOMAIN diagCallbacks :
       (Resumes(k) /\ docOpen /\ clangdDiagnosticsGeneration = diagCallbacks[k].generation)
         => /\ diagCallbacks'[k].pc = "done"
            /\ clangdDiagnostics' = (IF settings.diagnosticsMode = "none" THEN <<>>
                                     ELSE FilterClangdDiagnostics(diagCallbacks[k].diags, docText))
            /\ sendFlip' # sendFlip
            /\ published' = PublishDiagnostics(Cur').published]_vars

\* arrival k is cached in this step
Caches(k) == Resumes(k) /\ diagCallbacks'[k].pc = "done"

\* -- C27: when a report of the analyzer for the open document is cached,
\* under `none` the cached set is empty; a diagnostic of the report on a
\* line with a Basilisk construct whose message matches a noise pattern is
\* absent from the cached set under `filtered` and present under `all`; and
\* under `filtered` every diagnostic of the report that is on a line without
\* a construct, or whose message matches no noise pattern, or that belongs to
\* a text without any construct, is in the cached set.
C27_DiagnosticsMode ==
  [][\A k \in DOMAIN diagCallbacks :
       (Caches(k) /\ docOpen) =>
         LET mode == settings.diagnosticsMode
             report == diagCallbacks[k].diags
             Cached(d) == \E j \in DOMAIN clangdDiagnostics' : clangdDiagnostics'[j] = d
         IN /\ mode = "none" => clangdDiagnostics' = <<>>
            /\ \A n \in DOMAIN report :
                 LET d == report[n]
                     noisy == OnBasiliskLine(d, docText) /\ MatchesNoise(d)
                 IN /\ (mode = "filtered" /\ noisy) => ~Cached(d)
                    /\ (mode = "all" /\ noisy) => Cached(d)
                    /\ (mode = "filtered" /\ ~noisy) => Cached(d)
                    /\ (mode = "filtered" /\ ~IsLikelyBasiliskText(docText)) => Cached(d)]_vars

\* under `filtered` a report with a noise message on a line with a construct
\* and another diagnostic has been cached without the first, and the text
\* has a line without a construct
C27_Witness ==
  /\ settings.diagnosticsMode = "filtered"
  /\ docOpen
  /\ \E l \in DOMAIN docText : ~docText[l]
  /\ \E k \in DOMAIN diagCallbacks :
       /\ diagCallbacks[k].pc = "done"
       /\ Len(diagCallbacks[k].diags) = 2
       /\ clangdDiagnosticsGeneration = diagCallbacks[k].generation
       /\ clangdDiagnostics = <<diagCallbacks[k].diags[2]>>

\* ------------------------------------------------ claims on publishing

\* the first n entries of a list
FirstEntries(list, n) ==
  SubSeq(list, 1, IF n > Len(list) THEN Len(list) ELSE n)

\* C17: what is sent for the document is the first maxNumberOfProblems
\* entries of the deduplication of the analyzer cache followed by the local
\* cache; it never has more entries than the limit allows.
C17_PublishedSet ==
  published # "never" =>
    /\ published = FirstEntries(DedupeDiagnostics(clangdDiagnostics \o localDiagnostics),
                                settings.maxNumberOfProblems)
    /\ Len(published) <= Max2(settings.maxNumberOfProblems, 0)

\* two diagnostics agree on range, severity, message and origin
SameDiagnostic(d, e) ==
  /\ d.range = e.range
  /\ d.severity = e.severity
  /\ d.message = e.message
  /\ d.source = e.source

\* the list without every entry that agrees with an earlier one
RECURSIVE KeepFirst(_)
KeepFirst(list) ==
  IF list = <<>> THEN <<>>
  ELSE LET before == SubSeq(list, 1, Len(list) - 1)
           last == list[Len(list)]
       IN IF \E i \in DOMAIN before : SameDiagnostic(before[i], last)
            THEN KeepFirst(before)
            ELSE Append(KeepFirst(before), last)

\* C18: dedupeDiagnostics keeps the first occurrence of each diagnostic and
\* drops a later one if and only if it agrees with an earlier one on range,
\* severity, message and origin.
C18_DedupLaw ==
  DedupeDiagnostics(clangdDiagnostics \o localDiagnostics)
    = KeepFirst(clangdDiagnostics \o localDiagnostics)

\* --------------------------------------------- claims on settings changes

\* the validations the handler of change event n has started
Revalidations(n) == {i \in DOMAIN validations : validations[i].change = n}

\* validation i has read its settings
HasSettings(i) == validations[i].pc \in {"awaitQcc", "collected", "stored", "dropped"}

\* the handler of change event n has not reached its end
Handling(n) == \E t \in TaskIds : tasks[t].change = n /\ ~tasks[t].done

\* C21 (settings): a revalidation started by the handler of a settings-change
\* event runs with settings obtained after that event.
C21_SettingsAfterChange ==
  \A n \in 1..MaxEnsure : \A i \in Revalidations(n) :
    HasSettings(i) => validations[i].asOf >= n

\* C21 (progress): after a settings-change event the open document is
\* eventually revalidated and republished.
C21_EventuallyRevalidated ==
  \A n \in 1..MaxEnsure :
    (Handling(n) /\ docOpen) ~> (\E i \in Revalidations(n) : validations[i].pc = "stored")

====
